---- MODULE Spec2Model ----
(***************************************************************************)
(* A model of the flux stream library (az365/flux): the lazy sequence      *)
(* engine of streams/any_flux.py (AnyFlux), its external sort and its      *)
(* joins.  A flux is a record: its data, whether the data is a list        *)
(* (materialized) or a single-pass producer (lazy), and its metadata.      *)
(***************************************************************************)
EXTENDS Integers, Sequences, FiniteSets, TLC

VARIABLES
    flux,       \* SpecOps: the flux the pipeline currently holds
    parts,      \* SpecOps: the fluxes returned by the last split
    last,       \* SpecOps: the last operation applied and its arguments
    nops,       \* SpecOps: number of operations applied so far
    origin,     \* SpecOps: how the first flux was created
    s_flux,     \* SpecSort: the flux to sort
    s_args,     \* SpecSort: keys, reverse and step of the call
    s_res,      \* SpecSort: the call made and what it returned or raised
    gen,        \* SpecIter: the generator behind a lazy flux F: its list and position
    fl,         \* SpecIter: what iterating F itself has returned
    der,        \* SpecIter: the iterator of a flux derived from F
    tb,         \* SpecIter: the branches of F.tee(n)
    j_left,     \* SpecJoin: the left flux
    j_right,    \* SpecJoin: the right flux
    j_args,     \* SpecJoin: key, how and right_is_uniq of the call
    j_res,      \* SpecJoin: the call made and the flux it returned
    m_first,    \* SpecMerge: the first item, or None
    m_second,   \* SpecMerge: the second item, or None
    m_res,      \* SpecMerge: what merge_two_items returned or raised
    g_in,       \* SpecGroup: the pairs or records given
    g_args,     \* SpecGroup: the call and its arguments
    g_res,      \* SpecGroup: what the call returned or raised
    p_lines,    \* SpecParse: the lines of the LinesFlux
    p_args,     \* SpecParse: default_value, to and check of the call
    p_res,      \* SpecParse: the flux returned and what iterating it gave
    in_mem,     \* SpecMemory: the fluxes to_memory returned and what reading them gave
    d_files,    \* SpecDisk: the chunk files by name: who wrote it, its lines
    d_merges,   \* SpecDisk: the merge disk_sort returned for each side
    d_clobbered, \* SpecDisk: a file some unread merge has open was rewritten
    v_in,       \* SpecValid: the items given to the typed flux
    v_args,     \* SpecValid: the class and skip_errors of the call
    v_res,      \* SpecValid: the flux validated returned and what iterating it gave
    c_file,     \* SpecClose: the text file: its lines, read position, open or not
    c_flux,     \* SpecClose: the flux over the file
    c_res,      \* SpecClose: the close call made and what was observed after it
    t_selectors, \* SpecTopo: the selectors, in the order of the dict
    t_run       \* SpecTopo: the locals of topologically_sorted and its position

opsVars == <<flux, parts, last, nops, origin>>
sortVars == <<s_flux, s_args, s_res>>
iterVars == <<gen, fl, der, tb>>
joinVars == <<j_left, j_right, j_args, j_res>>
mergeVars == <<m_first, m_second, m_res>>
groupVars == <<g_in, g_args, g_res>>
parseVars == <<p_lines, p_args, p_res>>
memVars == <<in_mem>>
diskVars == <<d_files, d_merges, d_clobbered>>
validVars == <<v_in, v_args, v_res>>
closeVars == <<c_file, c_flux, c_res>>
topoVars == <<t_selectors, t_run>>
vars == <<opsVars, sortVars, iterVars, joinVars, mergeVars, groupVars, parseVars, memVars, diskVars, validVars, closeVars, topoVars>>

(***************************************************************************)
(* Bounds of the model.                                                    *)
(***************************************************************************)
MaxLen == 3
MaxOps == 2
SmallMemory == 2
MaxTee == 2
MaxJoinLen == 3
MaxReads == 2
\* the most inputs one field description names
MaxDeps == 2

Items == {1, 2}

RECURSIVE SeqsUpTo(_, _)
SeqsUpTo(S, n) ==
    IF n = 0 THEN {<< >>}
    ELSE LET shorter == SeqsUpTo(S, n - 1)
         IN  shorter \cup {Append(s, x) : s \in {t \in shorter : Len(t) = n - 1}, x \in S}

Min(a, b) == IF a <= b THEN a ELSE b

(***************************************************************************)
(* Python values: None, truthiness and the `or` operator.  An optional     *)
(* integer is << >> (None) or <<n>>.                                       *)
(***************************************************************************)
None == << >>
Some(n) == <<n>>
Truthy(x) == x # None /\ x[1] # 0
PyOr(a, b) == IF Truthy(a) THEN a ELSE b

(***************************************************************************)
(* AnyFlux.__init__: a list as data fixes count to its length; less_than   *)
(* falls back to count.                                                    *)
(***************************************************************************)
MAX_ITEMS_IN_MEMORY == 5000000

AnyFlux(data, mem, count, less_than, max_items_in_memory) ==
    LET c == IF mem THEN Some(Len(data)) ELSE count
    IN  [data |-> data, mem |-> mem, count |-> c,
         less_than |-> PyOr(less_than, c),
         max_items_in_memory |-> max_items_in_memory]

\* readers.from_list: a generator over the list, with its exact count
from_list(input_list) ==
    AnyFlux(input_list, FALSE, Some(Len(input_list)), None, MAX_ITEMS_IN_MEMORY)

\* readers.iterable: any iterable, no count
iterable(any_iterable, mem) ==
    AnyFlux(any_iterable, mem, None, None, MAX_ITEMS_IN_MEMORY)

\* AnyFlux.update_meta(count=...)
update_meta_count(f, count) ==
    AnyFlux(f.data, f.mem, count, f.less_than, f.max_items_in_memory)

(***************************************************************************)
(* The functions the operators are called with.                            *)
(***************************************************************************)
MapFns == {"same", "swap"}
Preds == {"is_one", "is_two", "any"}

ApplyFn(fn, i) == IF fn = "swap" THEN 3 - i ELSE i

ApplyPred(p, i) ==
    CASE p = "is_one" -> i = 1
      [] p = "is_two" -> i = 2
      [] OTHER -> TRUE

RECURSIVE MapSeq(_, _)
MapSeq(fn, s) ==
    IF s = << >> THEN << >> ELSE <<ApplyFn(fn, Head(s))>> \o MapSeq(fn, Tail(s))

\* AnyFlux.map (to=None): same class, all metadata kept, a list stays a list
map(f, fn) ==
    AnyFlux(MapSeq(fn, f.data), f.mem, f.count, f.less_than, f.max_items_in_memory)

\* filter_function of AnyFlux.filter: every function must return a truthy value
filter_function(functions, item) ==
    \A n \in 1..Len(functions) : ApplyPred(functions[n], item)

RECURSIVE FilterSeq(_, _)
FilterSeq(functions, s) ==
    IF s = << >> THEN << >>
    ELSE (IF filter_function(functions, Head(s)) THEN <<Head(s)>> ELSE << >>)
         \o FilterSeq(functions, Tail(s))

\* AnyFlux.filter with `self.count or self.less_than`
filter_less_than(f) == PyOr(f.count, f.less_than)

filter(f, functions) ==
    LET filtered_items == FilterSeq(functions, f.data)
    IN  IF f.mem
        THEN AnyFlux(filtered_items, TRUE, Some(Len(filtered_items)), f.less_than,
                     f.max_items_in_memory)
        ELSE AnyFlux(filtered_items, FALSE, None, filter_less_than(f),
                     f.max_items_in_memory)

\* take_items of AnyFlux.take: yield, then break once n + 1 >= m
RECURSIVE take_items(_, _, _)
take_items(items, n, m) ==
    IF items = << >> THEN << >>
    ELSE <<Head(items)>> \o (IF n + 1 >= m THEN << >> ELSE take_items(Tail(items), n + 1, m))

take(f, max_count) ==
    AnyFlux(take_items(f.data, 0, max_count), FALSE,
            IF Truthy(f.count) THEN Some(Min(f.count[1], max_count)) ELSE None,
            f.less_than, f.max_items_in_memory)

\* skip_items of AnyFlux.skip
RECURSIVE skip_items(_, _, _)
skip_items(items, n, c) ==
    IF items = << >> THEN << >>
    ELSE (IF n >= c THEN <<Head(items)>> ELSE << >>) \o skip_items(Tail(items), n + 1, c)

skip(f, count) ==
    LET empty == Truthy(f.count) /\ count >= f.count[1]
        next_items == IF empty THEN << >>
                      ELSE IF f.mem THEN SubSeq(f.data, count + 1, Len(f.data))
                      ELSE skip_items(f.data, 0, count)
        new_count == IF Truthy(f.count) THEN Some(f.count[1] - count) ELSE f.count
        new_less == IF ~Truthy(f.count) /\ Truthy(f.less_than)
                    THEN Some(f.less_than[1] - count) ELSE f.less_than
    IN  AnyFlux(next_items, empty \/ f.mem, new_count, new_less, f.max_items_in_memory)

\* add_items with the chain built as if before were never given
add_items_ignoring_before(f, items, before) ==
    AnyFlux(f.data \o items, FALSE, None, f.less_than, f.max_items_in_memory)

\* AnyFlux.add_items: chain(old, new), or chain(new, old) when before
add_items(f, items, before) ==
    AnyFlux(IF before THEN items \o f.data ELSE f.data \o items,
            FALSE, None, f.less_than, f.max_items_in_memory)

add_flux(f, g, before) ==
    LET total_count == IF f.count # None /\ g.count # None
                       THEN Some(g.count[1] + f.count[1]) ELSE None
    IN  update_meta_count(add_items(f, g.data, before), total_count)

\* AnyFlux.add: b is [isflux, flux] or [isflux, items]
add(f, b, before) ==
    IF b.isflux THEN add_flux(f, b.flux, before) ELSE add_items(f, b.flux.data, before)

\* AnyFlux.validated: valid_items of AnyFlux returns the items as they are
validated(f) ==
    AnyFlux(f.data, f.mem, f.count, f.less_than, f.max_items_in_memory)

\* AnyFlux.tee: n branches over the same items, each a lazy flux with count only
tee(f, n) ==
    [i \in 1..n |-> AnyFlux(f.data, FALSE, f.count, None, MAX_ITEMS_IN_MEMORY)]

split_by_pos(f, pos) ==
    LET t == tee(f, 2) IN <<take(t[1], pos), skip(t[2], pos)>>

split_by_list_pos(f, list_pos) ==
    LET count_limits == Len(list_pos)
        cloned_fluxes == tee(f, count_limits + 1)
        prev_pos(n) == IF n = 1 THEN 0 ELSE list_pos[n - 1]
    IN  [n \in 1..(count_limits + 1) |->
            IF n <= count_limits
            THEN update_meta_count(
                     take(skip(cloned_fluxes[n], prev_pos(n)), list_pos[n] - prev_pos(n)),
                     Some(list_pos[n] - prev_pos(n)))
            ELSE skip(cloned_fluxes[n], list_pos[count_limits])]

(***************************************************************************)
(* SpecOps: a flux is created from a finite list and transformed by a      *)
(* bounded sequence of operators.                                          *)
(***************************************************************************)
Lists == SeqsUpTo(Items, MaxLen)
Args == 0..(MaxLen + 1)
NoArgs == [op |-> "new", n |-> 0, before |-> FALSE, fns |-> << >>,
           b |-> [isflux |-> FALSE, flux |-> iterable(<< >>, TRUE)]]

\* the fluxes a program builds from a list: AnyFlux(list), from_list(list), iterable(gen)
NewFlux(how, l) ==
    CASE how = "list" -> iterable(l, TRUE)
      [] how = "from_list" -> from_list(l)
      [] OTHER -> iterable(l, FALSE)

Origins == {"list", "from_list", "iterable"}

NewFluxes(ls) == {NewFlux(how, l) : how \in Origins, l \in ls}

SortIdle ==
    /\ s_flux = iterable(<< >>, TRUE)
    /\ s_args = << >>
    /\ s_res = << >>

NoDerived == [kind |-> "none", arg |-> 0, n |-> 0, base |-> 0, done |-> FALSE, out |-> << >>]
NoTee == [deques |-> << >>, out |-> << >>, done |-> << >>, base |-> 0, bypass |-> FALSE]
NotIterated == [out |-> << >>, exhausted |-> FALSE, late |-> << >>, late_iters |-> {}]

IterIdle ==
    /\ gen = [items |-> << >>, pos |-> 0]
    /\ fl = NotIterated
    /\ der = NoDerived
    /\ tb = NoTee

JoinIdle ==
    /\ j_left = iterable(<< >>, TRUE)
    /\ j_right = iterable(<< >>, TRUE)
    /\ j_args = << >>
    /\ j_res = << >>

MergeIdle ==
    /\ m_first = None
    /\ m_second = None
    /\ m_res = << >>

GroupIdle ==
    /\ g_in = << >>
    /\ g_args = << >>
    /\ g_res = << >>

ParseIdle ==
    /\ p_lines = << >>
    /\ p_args = << >>
    /\ p_res = << >>

NoMemory == [made |-> << >>, again |-> << >>, reads |-> << >>, from |-> 0, consumed |-> FALSE]
MemoryIdle == in_mem = NoMemory

DiskIdle ==
    /\ d_files = << >>
    /\ d_merges = << >>
    /\ d_clobbered = FALSE

ValidIdle ==
    /\ v_in = << >>
    /\ v_args = << >>
    /\ v_res = << >>

CloseIdle ==
    /\ c_file = << >>
    /\ c_flux = << >>
    /\ c_res = << >>

TopoIdle ==
    /\ t_selectors = << >>
    /\ t_run = << >>

InitOps ==
    /\ SortIdle
    /\ IterIdle
    /\ JoinIdle
    /\ MergeIdle
    /\ GroupIdle
    /\ ParseIdle
    /\ MemoryIdle
    /\ DiskIdle
    /\ ValidIdle
    /\ CloseIdle
    /\ TopoIdle
    /\ origin \in Origins
    /\ flux \in {NewFlux(origin, l) : l \in Lists}
    /\ parts = << >>
    /\ last = NoArgs
    /\ nops = 0

Step(op, f, n, before, fns, b) ==
    /\ nops < MaxOps
    /\ nops' = nops + 1
    /\ flux' = f
    /\ parts' = << >>
    /\ last' = [op |-> op, n |-> n, before |-> before, fns |-> fns, b |-> b]
    /\ UNCHANGED <<origin, sortVars, iterVars, joinVars, mergeVars, groupVars, parseVars, memVars, diskVars, validVars, closeVars, topoVars>>

Map ==
    \E fn \in MapFns : Step("map", map(flux, fn), 0, FALSE, <<fn>>, NoArgs.b)

Filter ==
    \E fns \in SeqsUpTo(Preds, 2) :
        Step("filter", filter(flux, fns), 0, FALSE, fns, NoArgs.b)

Take ==
    \E m \in Args : Step("take", take(flux, m), m, FALSE, << >>, NoArgs.b)

Skip ==
    \E c \in Args : Step("skip", skip(flux, c), c, FALSE, << >>, NoArgs.b)

Add ==
    \E g \in NewFluxes(SeqsUpTo(Items, 1)), isflux \in BOOLEAN, before \in BOOLEAN :
        /\ ~isflux => g.mem
        /\ LET b == [isflux |-> isflux, flux |-> g]
           IN  Step("add", add(flux, b, before), 0, before, << >>, b)

Validated ==
    Step("validated", validated(flux), 0, FALSE, << >>, NoArgs.b)

SplitByPos ==
    \E pos \in Args :
        /\ nops < MaxOps
        /\ nops' = nops + 1
        /\ parts' = split_by_pos(flux, pos)
        /\ last' = [NoArgs EXCEPT !.op = "split_by_pos", !.n = pos]
        /\ UNCHANGED <<flux, origin, sortVars, iterVars, joinVars, mergeVars, groupVars, parseVars, memVars, diskVars, validVars, closeVars, topoVars>>

SplitByListPos ==
    \E list_pos \in SeqsUpTo(Args, 2) :
        /\ list_pos # << >>
        /\ nops < MaxOps
        /\ nops' = nops + 1
        /\ parts' = split_by_list_pos(flux, list_pos)
        /\ last' = [NoArgs EXCEPT !.op = "split_by_list_pos", !.fns = list_pos]
        /\ UNCHANGED <<flux, origin, sortVars, iterVars, joinVars, mergeVars, groupVars, parseVars, memVars, diskVars, validVars, closeVars, topoVars>>

\* the program goes on with one of the fluxes a split returned
PickPart ==
    \E i \in 1..Len(parts) :
        /\ flux' = parts[i]
        /\ parts' = << >>
        /\ last' = [NoArgs EXCEPT !.op = "pick", !.n = i]
        /\ UNCHANGED <<nops, origin, sortVars, iterVars, joinVars, mergeVars, groupVars, parseVars, memVars, diskVars, validVars, closeVars, topoVars>>

NextOps ==
    \/ Map \/ Filter \/ Take \/ Skip \/ Add \/ Validated
    \/ SplitByPos \/ SplitByListPos \/ PickPart

SpecOps == InitOps /\ [][NextOps]_vars

(***************************************************************************)
(* SpecBound: the pipelines of filter, flat_map, skip, take and add of a   *)
(* list of items, over the fluxes of SpecOps.                              *)
(***************************************************************************)
FlatFns == {"each_twice", "each_once", "nothing"}

\* function(i): the items one input item becomes
ApplyFlat(fn, i) ==
    CASE fn = "each_twice" -> <<i, i>>
      [] fn = "each_once" -> <<i>>
      [] OTHER -> << >>

RECURSIVE FlatMapSeq(_, _)
FlatMapSeq(fn, s) ==
    IF s = << >> THEN << >> ELSE ApplyFlat(fn, Head(s)) \o FlatMapSeq(fn, Tail(s))

\* AnyFlux.flat_map (to=None): a generator, the metadata kept but count
flat_map(f, fn) ==
    AnyFlux(FlatMapSeq(fn, f.data), FALSE, None, f.less_than, f.max_items_in_memory)

FlatMap ==
    \E fn \in FlatFns : Step("flat_map", flat_map(flux, fn), 0, FALSE, <<fn>>, NoArgs.b)

\* flux.add(items) with a plain list of items
AddItems ==
    \E items \in SeqsUpTo(Items, 1), before \in BOOLEAN :
        Step("add_items", add_items(flux, items, before), 0, before, << >>,
             [isflux |-> FALSE, flux |-> iterable(items, TRUE)])

NextBound == Filter \/ FlatMap \/ Take \/ Skip \/ AddItems

SpecBound == InitOps /\ [][NextBound]_vars

(***************************************************************************)
(* External sort.  Items are rows (v, id), as tuples or as lists; the      *)
(* chunk files hold one JSON text per line.                                *)
(***************************************************************************)
SortItems ==
    {[v |-> 1, id |-> "a", shape |-> "tuple"],
     [v |-> 1, id |-> "b", shape |-> "list"],
     [v |-> 2, id |-> "a", shape |-> "list"]}

\* json.dumps writes a tuple and a list alike; json.loads reads a list
\* a dict is written as an object and read back as an equal dict
json_dumps(item) ==
    IF item.shape = "record" THEN item ELSE [v |-> item.v, id |-> item.id]
json_loads(line) ==
    IF "shape" \in DOMAIN line THEN line
    ELSE [v |-> line.v, id |-> line.id, shape |-> "list"]

\* hash() of an int of this size is the int, but hash(-1) is -2
hash(n) == IF n = -1 THEN -2 ELSE n

\* the key functions the callers pass
KeySpecs == {<<"first">>, <<"const">>, <<"is_tuple">>, <<"const", "first">>}

key_value(k, item) ==
    CASE k = "first" -> item.v
      [] k = "second" -> item.id
      [] k = "is_tuple" -> IF item.shape = "tuple" THEN 1 ELSE 0
      [] k = "x" -> item.x
      [] k = "hash_x" -> hash(item.x)
      [] OTHER -> 100

\* fs.composite_key: the tuple of the key functions' values
composite_key(keys, item) == [n \in 1..Len(keys) |-> key_value(keys[n], item)]

\* Python's ordering of tuples of equal length
RECURSIVE TupleLess(_, _)
TupleLess(a, b) ==
    IF a = << >> THEN FALSE
    ELSE Head(a) < Head(b) \/ (Head(a) = Head(b) /\ TupleLess(Tail(a), Tail(b)))

\* x must be emitted before y
Before(x, y, keys, reverse) ==
    IF reverse THEN TupleLess(composite_key(keys, y), composite_key(keys, x))
               ELSE TupleLess(composite_key(keys, x), composite_key(keys, y))

\* the builtin sorted(list, key, reverse): stable, equal keys keep their order
RECURSIVE sorted(_, _, _)
sorted(s, keys, reverse) ==
    IF s = << >> THEN << >>
    ELSE LET x == s[Len(s)]
             rest == sorted(SubSeq(s, 1, Len(s) - 1), keys, reverse)
             stay == {n \in 0..Len(rest) :
                         \A m \in 1..n : ~Before(x, rest[m], keys, reverse)}
             pos == CHOOSE n \in stay : \A m \in stay : m <= n
         IN  SubSeq(rest, 1, pos) \o <<x>> \o SubSeq(rest, pos + 1, Len(rest))

\* memory_sort that always sorts ascending
memory_sort_ascending(f, keys, reverse) ==
    LET sorted_items == sorted(f.data, keys, FALSE)
    IN  AnyFlux(sorted_items, TRUE, Some(Len(sorted_items)), f.less_than,
                f.max_items_in_memory)

\* AnyFlux.memory_sort
memory_sort(f, keys, reverse) ==
    LET sorted_items == sorted(f.data, keys, reverse)
    IN  AnyFlux(sorted_items, TRUE, Some(Len(sorted_items)), f.less_than,
                f.max_items_in_memory)

\* take_items of split_to_iter_by_step: append, then break once n + 1 >= step
RECURSIVE chunk_take_items(_, _, _)
chunk_take_items(items, n, step) ==
    IF items = << >> THEN << >>
    ELSE <<Head(items)>> \o (IF n + 1 >= step THEN << >>
                             ELSE chunk_take_items(Tail(items), n + 1, step))

\* a split that puts all the items into one chunk
split_to_iter_whole(f, step) ==
    IF f.data = << >> THEN << >>
    ELSE <<AnyFlux(f.data, TRUE, Some(Len(f.data)), f.less_than, f.max_items_in_memory)>>

\* AnyFlux.split_to_iter_by_step: chunks while take_items returns items
RECURSIVE split_to_iter_by_step(_, _)
split_to_iter_by_step(f, step) ==
    LET items == chunk_take_items(f.data, 0, step)
        rest == [f EXCEPT !.data = SubSeq(f.data, Len(items) + 1, Len(f.data))]
    IN  IF items = << >> THEN << >>
        ELSE <<AnyFlux(items, TRUE, Some(Len(items)), f.less_than, f.max_items_in_memory)>>
             \o split_to_iter_by_step(rest, step)

RECURSIVE MapLines(_, _)
MapLines(s, dumps) ==
    IF s = << >> THEN << >>
    ELSE <<IF dumps THEN json_dumps(Head(s)) ELSE json_loads(Head(s))>>
         \o MapLines(Tail(s), dumps)

\* TextFile.count_lines: the number of line ends + 1
count_lines(lines) == (IF lines = << >> THEN 0 ELSE Len(lines) - 1) + 1

\* to_json().to_file(part_fn).map_to_any(json.loads): the chunk as read back
chunk_on_disk(fx_part) ==
    LET lines == MapLines(fx_part.data, TRUE)
    IN  AnyFlux(MapLines(lines, FALSE), FALSE, Some(count_lines(lines)), fx_part.less_than,
                MAX_ITEMS_IN_MEMORY)

\* split_to_disk_by_step that saves the chunks as they come, unsorted
split_to_disk_by_step_unsorted(f, step, keys, reverse) ==
    LET iter_parts == split_to_iter_by_step(f, step)
    IN  [part_no \in 1..Len(iter_parts) |-> chunk_on_disk(iter_parts[part_no])]

\* AnyFlux.split_to_disk_by_step; sort_each_by=None is keys = << >> here
split_to_disk_by_step(f, step, keys, reverse) ==
    LET iter_parts == split_to_iter_by_step(f, step)
    IN  [part_no \in 1..Len(iter_parts) |->
            IF keys = << >> THEN chunk_on_disk(iter_parts[part_no])
            ELSE chunk_on_disk(memory_sort(iter_parts[part_no], keys, reverse))]

\* algo.merge_iter: emit the head that no other head must precede, the first
\* chunk among equal keys, and advance that chunk only
RECURSIVE merge_iter(_, _, _)
merge_iter(iterables, keys, reverse) ==
    LET open == {n \in 1..Len(iterables) : iterables[n] # << >>}
    IN  IF open = {} THEN << >>
        ELSE LET best == CHOOSE n \in open :
                     \A m \in open :
                         /\ ~Before(Head(iterables[m]), Head(iterables[n]), keys, reverse)
                         /\ m < n => Before(Head(iterables[n]), Head(iterables[m]), keys, reverse)
             IN  <<Head(iterables[best])>>
                 \o merge_iter([iterables EXCEPT ![best] = Tail(iterables[best])], keys, reverse)

RECURSIVE SumCounts(_)
SumCounts(counts) == IF counts = << >> THEN 0 ELSE Head(counts)[1] + SumCounts(Tail(counts))

Raised(error) == [status |-> error, flux |-> iterable(<< >>, TRUE)]
Returned(f) == [status |-> "ok", flux |-> f]

\* AnyFlux.disk_sort
disk_sort(f, keys, reverse, step) ==
    LET flux_parts == split_to_disk_by_step(f, step, keys, reverse)
        iterables == [n \in 1..Len(flux_parts) |-> flux_parts[n].data]
        counts == [n \in 1..Len(flux_parts) |-> flux_parts[n].count]
    IN  IF flux_parts = << >> THEN Raised("AssertionError")
        ELSE Returned(AnyFlux(merge_iter(iterables, keys, reverse), FALSE,
                              Some(SumCounts(counts)), f.less_than, f.max_items_in_memory))

\* AnyFlux.estimate_count
estimate_count(f) == PyOr(f.count, f.less_than)

\* AnyFlux.can_be_in_memory with the default step
can_be_in_memory(f) ==
    \/ f.mem
    \/ estimate_count(f) # None /\ estimate_count(f)[1] <= f.max_items_in_memory

\* arg.undefault(step, self.max_items_in_memory); DEFAULT is << >> here
undefault_step(step, f) == IF step = << >> THEN f.max_items_in_memory ELSE step[1]

\* AnyFlux.sort
sort(f, keys, reverse, step) ==
    IF can_be_in_memory(f) THEN Returned(memory_sort(f, keys, reverse))
    ELSE disk_sort(f, keys, reverse, undefault_step(step, f))

\* flux.update_meta(max_items_in_memory=m) and flux.set_meta(max_items_in_memory=m)
update_meta_max(f, m) == AnyFlux(f.data, f.mem, f.count, f.less_than, m)
set_meta_max(f, m) == AnyFlux(f.data, f.mem, None, None, m)

(***************************************************************************)
(* SpecSort: one flux, one call of sort, memory_sort or disk_sort.         *)
(***************************************************************************)
OpsIdle ==
    /\ flux = iterable(<< >>, TRUE)
    /\ parts = << >>
    /\ last = NoArgs
    /\ nops = 0
    /\ origin = "list"

SortInputs ==
    LET fresh == {NewFlux(how, l) : how \in Origins, l \in SeqsUpTo(SortItems, MaxLen)}
    IN  fresh \cup {update_meta_max(f, SmallMemory) : f \in fresh}
              \cup {set_meta_max(f, SmallMemory) : f \in fresh}

InitSort ==
    /\ OpsIdle
    /\ IterIdle
    /\ JoinIdle
    /\ MergeIdle
    /\ GroupIdle
    /\ ParseIdle
    /\ MemoryIdle
    /\ DiskIdle
    /\ ValidIdle
    /\ CloseIdle
    /\ TopoIdle
    /\ s_flux \in SortInputs
    /\ s_args \in [keys : KeySpecs, reverse : BOOLEAN,
                   step : {<< >>} \cup {<<n>> : n \in 1..MaxLen}]
    /\ s_res = << >>

SortCall ==
    /\ s_res = << >>
    /\ s_res' = [call |-> "sort",
                 path |-> IF can_be_in_memory(s_flux) THEN "memory" ELSE "disk",
                 res |-> sort(s_flux, s_args.keys, s_args.reverse, s_args.step)]
    /\ UNCHANGED <<s_flux, s_args, opsVars, iterVars, joinVars, mergeVars, groupVars, parseVars, memVars, diskVars, validVars, closeVars, topoVars>>

MemorySortCall ==
    /\ s_res = << >>
    /\ s_res' = [call |-> "memory_sort", path |-> "memory",
                 res |-> Returned(memory_sort(s_flux, s_args.keys, s_args.reverse))]
    /\ UNCHANGED <<s_flux, s_args, opsVars, iterVars, joinVars, mergeVars, groupVars, parseVars, memVars, diskVars, validVars, closeVars, topoVars>>

DiskSortCall ==
    /\ s_res = << >>
    /\ s_res' = [call |-> "disk_sort", path |-> "disk",
                 res |-> disk_sort(s_flux, s_args.keys, s_args.reverse,
                                   undefault_step(s_args.step, s_flux))]
    /\ UNCHANGED <<s_flux, s_args, opsVars, iterVars, joinVars, mergeVars, groupVars, parseVars, memVars, diskVars, validVars, closeVars, topoVars>>

NextSort == SortCall \/ MemorySortCall \/ DiskSortCall

SpecSort == InitSort /\ [][NextSort]_vars

(***************************************************************************)
(* SpecSortPath: one call of sort on a flux built with any metadata the    *)
(* constructor takes: data as a list or a producer, count, less_than and   *)
(* max_items_in_memory.                                                    *)
(***************************************************************************)
PathItems ==
    {[v |-> 1, id |-> "b", shape |-> "list"], [v |-> 2, id |-> "a", shape |-> "list"]}

\* fx.AnyFlux(data, count=..., less_than=..., max_items_in_memory=...): count
\* is absent or exact, less_than absent or an upper bound
PathInputs ==
    {AnyFlux(l, mem, count, less_than, m) :
        l \in SeqsUpTo(PathItems, MaxLen), mem \in BOOLEAN,
        count \in {None} \cup {Some(n) : n \in 0..MaxLen},
        less_than \in {None} \cup {Some(n) : n \in 0..(MaxLen + 1)},
        m \in {SmallMemory, MAX_ITEMS_IN_MEMORY}}

InitSortPath ==
    /\ OpsIdle
    /\ IterIdle
    /\ JoinIdle
    /\ MergeIdle
    /\ GroupIdle
    /\ ParseIdle
    /\ MemoryIdle
    /\ DiskIdle
    /\ ValidIdle
    /\ CloseIdle
    /\ TopoIdle
    /\ s_flux \in {f \in PathInputs :
                      /\ f.count # None => f.count[1] = Len(f.data)
                      /\ f.less_than # None => f.less_than[1] >= Len(f.data)}
    /\ s_args \in [keys : {<<"first">>}, reverse : BOOLEAN,
                   step : {<< >>} \cup {<<n>> : n \in 1..MaxLen}]
    /\ s_res = << >>

NextSortPath == SortCall

SpecSortPath == InitSortPath /\ [][NextSortPath]_vars

(***************************************************************************)
(* SpecSplitStep: one flux and one call of split_to_iter_by_step or of     *)
(* split_to_disk_by_step, with the chunks it returns.                      *)
(***************************************************************************)
InitSplitStep ==
    /\ OpsIdle
    /\ IterIdle
    /\ JoinIdle
    /\ MergeIdle
    /\ GroupIdle
    /\ ParseIdle
    /\ MemoryIdle
    /\ DiskIdle
    /\ ValidIdle
    /\ CloseIdle
    /\ TopoIdle
    /\ s_flux \in SortInputs
    /\ s_args \in [keys : {<< >>}, reverse : {FALSE}, step : {<<n>> : n \in 1..MaxLen}]
    /\ s_res = << >>

\* [f for f in flux.split_to_iter_by_step(step)]
SplitToIterCall ==
    /\ s_res = << >>
    /\ s_res' = [call |-> "split_to_iter_by_step", path |-> "memory",
                 res |-> split_to_iter_by_step(s_flux, s_args.step[1])]
    /\ UNCHANGED <<s_flux, s_args, opsVars, iterVars, joinVars, mergeVars, groupVars, parseVars, memVars, diskVars, validVars, closeVars, topoVars>>

\* flux.split_to_disk_by_step(step)
SplitToDiskCall ==
    /\ s_res = << >>
    /\ s_res' = [call |-> "split_to_disk_by_step", path |-> "disk",
                 res |-> split_to_disk_by_step(s_flux, s_args.step[1], << >>, FALSE)]
    /\ UNCHANGED <<s_flux, s_args, opsVars, iterVars, joinVars, mergeVars, groupVars, parseVars, memVars, diskVars, validVars, closeVars, topoVars>>

NextSplitStep == SplitToIterCall \/ SplitToDiskCall

SpecSplitStep == InitSplitStep /\ [][NextSplitStep]_vars

(***************************************************************************)
(* Map-side join.  Items are plain values with two key functions on them;  *)
(* an output pairs an optional left item with an optional right item.      *)
(***************************************************************************)
JoinItems ==
    {[v |-> 1, id |-> "a", shape |-> "any"],
     [v |-> 1, id |-> "b", shape |-> "any"],
     [v |-> 2, id |-> "a", shape |-> "any"]}

JoinKeys == {<<"first">>, <<"second">>, <<"first", "second">>}

JOIN_TYPES == {"left", "right", "inner", "full"}

\* fx.is_record, fx.is_row: a dict; a list or a tuple.  None is neither
is_record(item) == item # None /\ item[1].shape = "record"
is_row(item) == item # None /\ item[1].shape \in {"tuple", "list"}

\* list(row): the elements of a row
row_elems(item) == IF "elems" \in DOMAIN item THEN item.elems ELSE <<item.v, item.id>>

\* mappers.merge_two_items(first, second): what it returns or raises.  A dict
\* has no append, so two records raise; a record takes any other second
\* under '_right'; a row takes any other second as one more element
merge_two_items(first, second) ==
    IF is_record(first)
    THEN IF is_record(second)
         THEN [status |-> "AttributeError", shape |-> "none", value |-> << >>]
         ELSE [status |-> "ok", shape |-> "record",
               value |-> [k \in DOMAIN first[1].fields \cup {"_right"} |->
                             IF k = "_right" THEN second ELSE Some(first[1].fields[k])]]
    ELSE IF is_row(first)
         THEN IF is_row(second)
              THEN [status |-> "ok", shape |-> "tuple",
                    value |-> row_elems(first[1]) \o row_elems(second[1])]
              ELSE [status |-> "ok", shape |-> "tuple_with_item",
                    value |-> [elems |-> row_elems(first[1]), item |-> second]]
         ELSE [status |-> "ok", shape |-> "pair", value |-> <<first, second>>]

\* dict.get(key): the entry's items, or None
dict_get(d, key) ==
    LET hits == {i \in 1..Len(d) : d[i].key = key}
    IN  IF hits = {} THEN None ELSE d[CHOOSE i \in hits : TRUE].items

\* d[key] = item when the right side is unique, d[key].append(item) otherwise;
\* a dict keeps its keys in the order of their first insertion
dict_put(d, key, item, uniq) ==
    IF dict_get(d, key) = None THEN Append(d, [key |-> key, items |-> <<item>>])
    ELSE [i \in 1..Len(d) |->
             IF d[i].key # key THEN d[i]
             ELSE [d[i] EXCEPT !.items = IF uniq THEN <<item>> ELSE Append(@, item)]]

\* the right side as a mapping from key to item(s), filled in iteration order
RECURSIVE items_to_dict(_, _, _)
items_to_dict(items, keys, uniq) ==
    IF items = << >> THEN << >>
    ELSE LET n == Len(items)
         IN  dict_put(items_to_dict(SubSeq(items, 1, n - 1), keys, uniq),
                      composite_key(keys, items[n]), items[n], uniq)

RECURSIVE Flatten(_)
Flatten(ss) == IF ss = << >> THEN << >> ELSE Head(ss) \o Flatten(Tail(ss))

\* algo.map_side_join: the left side is streamed against the mapping; right
\* and full then emit the entries whose key no left item had
algo_map_side_join(iter_left, iter_right, keys, how, uniq_right) ==
    LET dict_right == items_to_dict(iter_right, keys, uniq_right)
        keys_used == {composite_key(keys, iter_left[i]) : i \in 1..Len(iter_left)}
        for_left(left_part) ==
            LET right_part == dict_get(dict_right, composite_key(keys, left_part))
            IN  IF right_part # None
                THEN [i \in 1..Len(right_part) |->
                         merge_two_items(Some(left_part), Some(right_part[i])).value]
                ELSE IF how \in {"left", "full"}
                     THEN <<merge_two_items(Some(left_part), None).value>>
                     ELSE << >>
        for_right(entry) ==
            IF entry.key \in keys_used THEN << >>
            ELSE [i \in 1..Len(entry.items) |-> merge_two_items(None, Some(entry.items[i])).value]
    IN  Flatten([i \in 1..Len(iter_left) |-> for_left(iter_left[i])])
        \o (IF how \in {"right", "full"}
            THEN Flatten([i \in 1..Len(dict_right) |-> for_right(dict_right[i])])
            ELSE << >>)

\* a wrapper that always declares the right side unique
map_side_join_always_uniq(f, right, key, how, right_is_uniq) ==
    AnyFlux(algo_map_side_join(f.data, right.data, key, how, TRUE),
            f.mem, None, f.less_than, f.max_items_in_memory)

\* a wrapper that always joins inner
map_side_join_as_inner(f, right, key, how, right_is_uniq) ==
    AnyFlux(algo_map_side_join(f.data, right.data, key, "inner", right_is_uniq),
            f.mem, None, f.less_than, f.max_items_in_memory)

\* a wrapper that always joins left
map_side_join_as_left(f, right, key, how, right_is_uniq) ==
    AnyFlux(algo_map_side_join(f.data, right.data, key, "left", right_is_uniq),
            f.mem, None, f.less_than, f.max_items_in_memory)

\* a wrapper that always asks for every match
map_side_join_ignoring_uniq(f, right, key, how, right_is_uniq) ==
    AnyFlux(algo_map_side_join(f.data, right.data, key, how, FALSE),
            f.mem, None, f.less_than, f.max_items_in_memory)

\* AnyFlux.map_side_join: the joined items under self's meta except count
map_side_join(f, right, key, how, right_is_uniq) ==
    AnyFlux(algo_map_side_join(f.data, right.data, key, how, right_is_uniq),
            f.mem, None, f.less_than, f.max_items_in_memory)

JoinLists == SeqsUpTo(JoinItems, MaxJoinLen)

InitJoin ==
    /\ OpsIdle
    /\ SortIdle
    /\ IterIdle
    /\ MergeIdle
    /\ GroupIdle
    /\ ParseIdle
    /\ MemoryIdle
    /\ DiskIdle
    /\ ValidIdle
    /\ CloseIdle
    /\ TopoIdle
    /\ j_left \in {NewFlux(how, l) : how \in {"list", "from_list"}, l \in JoinLists}
    /\ j_right \in {NewFlux("list", l) : l \in JoinLists}
    /\ j_args = << >>
    /\ j_res = << >>

\* left.map_side_join(right, key, how, right_is_uniq).get_list()
MapSideJoinCall ==
    /\ j_res = << >>
    /\ \E key \in JoinKeys, how \in JOIN_TYPES, right_is_uniq \in BOOLEAN :
        /\ j_args' = <<[key |-> key, how |-> how, right_is_uniq |-> right_is_uniq]>>
        /\ j_res' = <<map_side_join(j_left, j_right, key, how, right_is_uniq)>>
    /\ UNCHANGED <<j_left, j_right, opsVars, sortVars, iterVars, mergeVars, groupVars, parseVars, memVars, diskVars, validVars, closeVars, topoVars>>

NextJoin == MapSideJoinCall

SpecJoin == InitJoin /\ [][NextJoin]_vars

(***************************************************************************)
(* Sorted merge join, and join() = sort both sides, then merge join.       *)
(***************************************************************************)
SortedJoinKeys == {<<"first">>, <<"const">>}

\* the items at the head of a sequence whose key is k
RECURSIVE LeadingRun(_, _, _)
LeadingRun(items, keys, k) ==
    IF items = << >> \/ composite_key(keys, Head(items)) # k THEN << >>
    ELSE <<Head(items)>> \o LeadingRun(Tail(items), keys, k)

\* algo.sorted_join: two cursors; the side with the smaller key advances and
\* is emitted alone when how keeps it; equal keys emit the cross product of
\* the two runs and both cursors pass their run
RECURSIVE algo_sorted_join(_, _, _, _, _)
algo_sorted_join(iter_left, iter_right, keys, how, sorting_is_reversed) ==
    IF iter_left = << >> /\ iter_right = << >> THEN << >>
    ELSE IF iter_right = << >>
            \/ (iter_left # << >>
                /\ Before(Head(iter_left), Head(iter_right), keys, sorting_is_reversed))
    THEN (IF how \in {"left", "full"}
          THEN <<merge_two_items(Some(Head(iter_left)), None).value>> ELSE << >>)
         \o algo_sorted_join(Tail(iter_left), iter_right, keys, how, sorting_is_reversed)
    ELSE IF iter_left = << >>
            \/ Before(Head(iter_right), Head(iter_left), keys, sorting_is_reversed)
    THEN (IF how \in {"right", "full"}
          THEN <<merge_two_items(None, Some(Head(iter_right))).value>> ELSE << >>)
         \o algo_sorted_join(iter_left, Tail(iter_right), keys, how, sorting_is_reversed)
    ELSE LET k == composite_key(keys, Head(iter_left))
             left_run == LeadingRun(iter_left, keys, k)
             right_run == LeadingRun(iter_right, keys, k)
         IN  Flatten([i \in 1..Len(left_run) |->
                         [j \in 1..Len(right_run) |->
                             merge_two_items(Some(left_run[i]), Some(right_run[j])).value]])
             \o algo_sorted_join(SubSeq(iter_left, Len(left_run) + 1, Len(iter_left)),
                                 SubSeq(iter_right, Len(right_run) + 1, Len(iter_right)),
                                 keys, how, sorting_is_reversed)

\* a wrapper that always joins inner
sorted_join_as_inner(f, right, key, how, sorting_is_reversed) ==
    AnyFlux(algo_sorted_join(f.data, right.data, key, "inner", sorting_is_reversed),
            f.mem, None, f.less_than, f.max_items_in_memory)

\* AnyFlux.sorted_join: the joined items under self's meta except count
sorted_join(f, right, key, how, sorting_is_reversed) ==
    AnyFlux(algo_sorted_join(f.data, right.data, key, how, sorting_is_reversed),
            f.mem, None, f.less_than, f.max_items_in_memory)

\* AnyFlux.join: self.sort(key).sorted_join(right.sort(key), key, how)
join(f, right, key, how, reverse) ==
    LET left_sorted == sort(f, key, reverse, << >>)
        right_sorted == sort(right, key, reverse, << >>)
    IN  IF left_sorted.status # "ok" THEN left_sorted
        ELSE IF right_sorted.status # "ok" THEN right_sorted
        ELSE Returned(sorted_join(left_sorted.flux, right_sorted.flux, key, how, reverse))

\* left.sorted_join(right, key, how, sorting_is_reversed).get_list()
SortedJoinCall ==
    /\ j_res = << >>
    /\ \E key \in SortedJoinKeys, how \in JOIN_TYPES, reversed \in BOOLEAN :
        /\ j_args' = <<[call |-> "sorted_join", key |-> key, how |-> how, reverse |-> reversed]>>
        /\ j_res' = <<Returned(sorted_join(j_left, j_right, key, how, reversed))>>
    /\ UNCHANGED <<j_left, j_right, opsVars, sortVars, iterVars, mergeVars, groupVars, parseVars, memVars, diskVars, validVars, closeVars, topoVars>>

\* left.join(right, key, how, reverse).get_list()
JoinCall ==
    /\ j_res = << >>
    /\ \E key \in SortedJoinKeys, how \in JOIN_TYPES, reverse \in BOOLEAN :
        /\ j_args' = <<[call |-> "join", key |-> key, how |-> how, reverse |-> reverse]>>
        /\ j_res' = <<join(j_left, j_right, key, how, reverse)>>
    /\ UNCHANGED <<j_left, j_right, opsVars, sortVars, iterVars, mergeVars, groupVars, parseVars, memVars, diskVars, validVars, closeVars, topoVars>>

NextSortedJoin == SortedJoinCall \/ JoinCall

SpecSortedJoin == InitJoin /\ [][NextSortedJoin]_vars

(***************************************************************************)
(* SpecMerge: mappers.merge_two_items on two items of any kind.            *)
(***************************************************************************)
MergeRecords ==
    {[shape |-> "record", fields |-> f] :
        f \in {[a |-> 1], [a |-> 2, b |-> 3], [b |-> 9], << >>}}

MergeRows ==
    {[shape |-> "tuple", elems |-> <<1>>], [shape |-> "list", elems |-> <<1, 2>>],
     [shape |-> "tuple", elems |-> << >>]}

MergeOthers == {[shape |-> "any", v |-> 1, id |-> "a"], [shape |-> "any", v |-> 2, id |-> "b"]}

\* the arguments of a call: a record, a row, another value, or None
MergeValues == {None} \cup {Some(x) : x \in MergeRecords \cup MergeRows \cup MergeOthers}

InitMerge ==
    /\ OpsIdle
    /\ SortIdle
    /\ IterIdle
    /\ JoinIdle
    /\ GroupIdle
    /\ ParseIdle
    /\ MemoryIdle
    /\ DiskIdle
    /\ ValidIdle
    /\ CloseIdle
    /\ TopoIdle
    /\ m_first \in MergeValues
    /\ m_second \in MergeValues
    /\ m_res = << >>

\* ms.merge_two_items(first, second)
MergeCall ==
    /\ m_res = << >>
    /\ m_res' = <<merge_two_items(m_first, m_second)>>
    /\ UNCHANGED <<m_first, m_second, opsVars, sortVars, iterVars, joinVars, groupVars, parseVars, memVars, diskVars, validVars, closeVars, topoVars>>

NextMerge == MergeCall

SpecMerge == InitMerge /\ [][NextMerge]_vars

(***************************************************************************)
(* SpecGroup: one list of pairs or of records, and one call that groups    *)
(* it: PairsFlux.sorted_group_by_key or RecordsFlux.group_by.  The         *)
(* receiver is built from the list the way a caller builds it.             *)
(***************************************************************************)

\* the parameter names of each class's __init__ (self left out)
AnyFluxParams ==
    {"data", "count", "less_than", "source", "context",
     "max_items_in_memory", "tmp_files_template", "tmp_files_encoding"}
RowsFluxParams ==
    {"items", "count", "check",
     "max_items_in_memory", "tmp_files_template", "tmp_files_encoding"}
PairsFluxParams ==
    {"data", "count", "check", "secondary", "max_items_in_memory",
     "tmp_files_template", "tmp_files_encoding", "context"}
RecordsFluxParams ==
    {"data", "count", "less_than", "check", "source", "context",
     "max_items_in_memory", "tmp_files_template", "tmp_files_encoding"}

\* a Python call binds: every keyword is a parameter, and the first
\* parameter gets its value either by position or by keyword, not both
Accepts(params, first, positional, keywords) ==
    /\ keywords \subseteq params
    /\ (positional = 1) # (first \in keywords)

\* fx.RowsFlux(items, **keywords): __init__ hands items=... to AnyFlux.__init__
RowsFlux(items, mem, count, check, keywords) ==
    IF ~Accepts(RowsFluxParams, "items", 1, keywords) THEN Raised("TypeError")
    ELSE IF ~Accepts(AnyFluxParams, "data", 0,
                     {"items", "count", "max_items_in_memory",
                      "tmp_files_template", "tmp_files_encoding"})
         THEN Raised("TypeError")
         ELSE Returned(AnyFlux(items, mem /\ ~check, count, None, MAX_ITEMS_IN_MEMORY))

\* fx.PairsFlux(data, **keywords): __init__ hands context=... to RowsFlux.__init__
PairsFlux(data, mem, count, check, keywords) ==
    IF ~Accepts(PairsFluxParams, "data", 1, keywords) THEN Raised("TypeError")
    ELSE RowsFlux(data, mem /\ ~check, count, check,
                  {"count", "check", "max_items_in_memory",
                   "tmp_files_template", "tmp_files_encoding", "context"})

\* fx.RecordsFlux(data, **keywords): check=True wraps the data in a generator
RecordsFlux(data, mem, count, check, keywords) ==
    IF ~Accepts(RecordsFluxParams, "data", 1, keywords) THEN Raised("TypeError")
    ELSE IF ~Accepts(AnyFluxParams, "data", 1,
                     {"count", "less_than", "source", "context", "max_items_in_memory",
                      "tmp_files_template", "tmp_files_encoding"})
         THEN Raised("TypeError")
         ELSE Returned(AnyFlux(data, mem /\ ~check, count, None, MAX_ITEMS_IN_MEMORY))

\* AnyFlux.to_pairs: PairsFlux(pairs, count=..., less_than=...)
to_pairs(f) == PairsFlux(f.data, FALSE, f.count, TRUE, {"count", "less_than"})

\* a conversion that keeps the items in a generator, with the count it had
to_memory_lazy(f) ==
    AnyFlux(f.data, FALSE, f.count, f.less_than, f.max_items_in_memory)

\* AnyFlux.to_memory: the items as a list, count = its length
to_memory(f) ==
    AnyFlux(f.data, TRUE, Some(Len(f.data)), f.less_than, f.max_items_in_memory)

GroupKeyValues == {-2, -1, 1}
GroupPairs == [shape : {"tuple"}, k : GroupKeyValues, v : {1, 2}]
GroupRecords == [shape : {"record"}, x : GroupKeyValues, y : {1, 2}]

\* get_groups of sorted_group_by_key: a group is yielded when the key
\* changes and something is accumulated, and once more at the end
RECURSIVE pairs_get_groups(_, _, _)
pairs_get_groups(rest, prev_k, accumulated) ==
    IF rest = << >> THEN <<[k |-> prev_k, v |-> accumulated]>>
    ELSE LET k == Some(rest[1].k)
         IN  IF k # prev_k /\ accumulated # << >>
             THEN <<[k |-> prev_k, v |-> accumulated]>>
                      \o pairs_get_groups(Tail(rest), k, <<rest[1].v>>)
             ELSE pairs_get_groups(Tail(rest), k, Append(accumulated, rest[1].v))

\* PairsFlux.sorted_group_by_key
sorted_group_by_key(f) ==
    LET fx_groups == PairsFlux(pairs_get_groups(f.data, None, << >>), FALSE, None, TRUE, {})
    IN  IF fx_groups.status # "ok" THEN fx_groups
        ELSE IF f.mem THEN Returned(to_memory(fx_groups.flux))
        ELSE fx_groups

\* get_groups of RecordsFlux.sorted_group_by, key_function = the record's x
RECURSIVE records_get_groups(_, _, _, _)
records_get_groups(rest, prev_k, accumulated, as_pairs) ==
    LET group == IF as_pairs THEN [k |-> prev_k, v |-> accumulated] ELSE accumulated
    IN  IF rest = << >> THEN <<group>>
        ELSE LET k == Some(rest[1].x)
             IN  IF k # prev_k /\ accumulated # << >>
                 THEN <<group>> \o records_get_groups(Tail(rest), k, <<rest[1]>>, as_pairs)
                 ELSE records_get_groups(Tail(rest), k, Append(accumulated, rest[1]), as_pairs)

\* RecordsFlux.sorted_group_by(keys, as_pairs=...)
sorted_group_by(f, as_pairs) ==
    LET groups == records_get_groups(f.data, None, << >>, as_pairs)
        fx_groups == IF as_pairs THEN PairsFlux(groups, FALSE, None, TRUE, {"secondary"})
                     ELSE RowsFlux(groups, FALSE, None, FALSE, {"check"})
    IN  IF fx_groups.status # "ok" THEN fx_groups
        ELSE IF f.mem THEN Returned(to_memory(fx_groups.flux))
        ELSE Returned(AnyFlux(fx_groups.flux.data, FALSE, fx_groups.flux.count,
                              PyOr(f.count, f.less_than), MAX_ITEMS_IN_MEMORY))

\* RecordsFlux.group_by(keys, as_pairs=..., take_hash=...): sort, then
\* sorted_group_by; the sort key is the key itself for as_pairs, else
\* get_key_function(keys, take_hash)
group_by(f, as_pairs, take_hash) ==
    LET key_for_sort == IF ~as_pairs /\ take_hash THEN <<"hash_x">> ELSE <<"x">>
        sorted_fx == sort(f, key_for_sort, FALSE, << >>)
    IN  IF sorted_fx.status # "ok" THEN sorted_fx
        ELSE sorted_group_by(sorted_fx.flux, as_pairs)

GroupLists == SeqsUpTo(GroupPairs, MaxLen) \cup SeqsUpTo(GroupRecords, MaxLen)

InitGroup ==
    /\ OpsIdle
    /\ SortIdle
    /\ IterIdle
    /\ JoinIdle
    /\ MergeIdle
    /\ ParseIdle
    /\ MemoryIdle
    /\ DiskIdle
    /\ ValidIdle
    /\ CloseIdle
    /\ TopoIdle
    /\ g_in \in GroupLists
    /\ g_args = << >>
    /\ g_res = << >>

\* fx.PairsFlux(pairs).sorted_group_by_key(), or
\* readers.from_list(pairs).to_pairs().sorted_group_by_key()
SortedGroupByKeyCall ==
    /\ g_res = << >>
    /\ \A n \in 1..Len(g_in) : g_in[n].shape = "tuple"
    /\ \E how \in {"PairsFlux", "to_pairs"} :
        LET receiver == IF how = "PairsFlux" THEN PairsFlux(g_in, TRUE, None, TRUE, {})
                        ELSE to_pairs(from_list(g_in))
        IN  /\ g_args' = <<[call |-> "sorted_group_by_key", how |-> how,
                            as_pairs |-> TRUE, take_hash |-> FALSE]>>
            /\ g_res' = <<IF receiver.status # "ok" THEN receiver
                          ELSE sorted_group_by_key(receiver.flux)>>
    /\ UNCHANGED <<g_in, opsVars, sortVars, iterVars, joinVars, mergeVars, parseVars, memVars, diskVars, validVars, closeVars, topoVars>>

\* fx.RecordsFlux(records).group_by('x', as_pairs=..., take_hash=...), the
\* receiver built with check=True (the default) or check=False
GroupByCall ==
    /\ g_res = << >>
    /\ \A n \in 1..Len(g_in) : g_in[n].shape = "record"
    /\ \E as_pairs \in BOOLEAN, take_hash \in BOOLEAN, check \in BOOLEAN :
        LET receiver == RecordsFlux(g_in, TRUE, None, check,
                                    IF check THEN {} ELSE {"check"})
        IN  /\ g_args' = <<[call |-> "group_by",
                            how |-> IF check THEN "checked" ELSE "unchecked",
                            as_pairs |-> as_pairs, take_hash |-> take_hash]>>
            /\ g_res' = <<IF receiver.status # "ok" THEN receiver
                          ELSE group_by(receiver.flux, as_pairs, take_hash)>>
    /\ UNCHANGED <<g_in, opsVars, sortVars, iterVars, joinVars, mergeVars, parseVars, memVars, diskVars, validVars, closeVars, topoVars>>

NextGroup == SortedGroupByKeyCall \/ GroupByCall

SpecGroup == InitGroup /\ [][NextGroup]_vars

(***************************************************************************)
(* SpecRunGroups: one list of pairs or of records, and one call of the     *)
(* run-length grouping pass on it: PairsFlux.sorted_group_by_key or        *)
(* RecordsFlux.sorted_group_by.                                            *)
(***************************************************************************)
\* fx.RecordsFlux(records).sorted_group_by('x', as_pairs=...), the receiver
\* built with check=True (the default) or check=False
SortedGroupByCall ==
    /\ g_res = << >>
    /\ \A n \in 1..Len(g_in) : g_in[n].shape = "record"
    /\ \E as_pairs \in BOOLEAN, check \in BOOLEAN :
        LET receiver == RecordsFlux(g_in, TRUE, None, check,
                                    IF check THEN {} ELSE {"check"})
        IN  /\ g_args' = <<[call |-> "sorted_group_by",
                            how |-> IF check THEN "checked" ELSE "unchecked",
                            as_pairs |-> as_pairs, take_hash |-> FALSE]>>
            /\ g_res' = <<IF receiver.status # "ok" THEN receiver
                          ELSE sorted_group_by(receiver.flux, as_pairs)>>
    /\ UNCHANGED <<g_in, opsVars, sortVars, iterVars, joinVars, mergeVars, parseVars, memVars, diskVars, validVars, closeVars, topoVars>>

NextRunGroups == SortedGroupByKeyCall \/ SortedGroupByCall

SpecRunGroups == InitGroup /\ [][NextRunGroups]_vars

(***************************************************************************)
(* SpecPairsJoin: a list of (key, row) pairs, a dict from keys to rows,    *)
(* and one call of PairsFlux.map_side_join on a receiver built from the    *)
(* list.  j_left holds the list, j_right the dict as its entries in        *)
(* insertion order.                                                        *)
(***************************************************************************)
PairsJoinRows == {<< >>, <<7>>}
PairsJoinLeft == [shape : {"tuple"}, k : {1, 2}, v : {<<1>>, << >>}]
PairsJoinEntries == [k : {1, 2, 3}, v : PairsJoinRows]

\* a dict: no key twice
PairsJoinDicts ==
    {d \in SeqsUpTo(PairsJoinEntries, MaxJoinLen) :
        \A m, n \in 1..Len(d) : d[m].k = d[n].k => m = n}

\* dict.get(key): the value, or None when the key is absent
pairs_dict_get(d, key) ==
    IF \E n \in 1..Len(d) : d[n].k = key
    THEN Some((CHOOSE e \in {d[n] : n \in 1..Len(d)} : e.k = key).v)
    ELSE None

\* the truth value of dict_right.get(key): None and the empty row are false
right_part_is_true(right_part) == right_part # None /\ right_part[1] # << >>

\* get_items of map_side_join, the loop over self.data
RECURSIVE pairs_join_left_items(_, _, _)
pairs_join_left_items(rest, dict_right, how) ==
    IF rest = << >> THEN << >>
    ELSE LET key == rest[1].k
             right_part == pairs_dict_get(dict_right, key)
             value == IF right_part_is_true(right_part)
                      THEN rest[1].v \o right_part[1] ELSE rest[1].v
         IN  (IF right_part_is_true(right_part) \/ ~(how = "inner")
              THEN <<[shape |-> "tuple", k |-> key, v |-> value]>> ELSE << >>)
                 \o pairs_join_left_items(Tail(rest), dict_right, how)

\* get_items of map_side_join, the loop over dict_right for how='outer'
pairs_join_right_items(data, dict_right, how) ==
    IF how = "outer"
    THEN LET keys_used == {data[n].k : n \in 1..Len(data)}
             unused(e) == e.k \notin keys_used
         IN  [n \in 1..Len(SelectSeq(dict_right, unused)) |->
                 [shape |-> "tuple", k |-> SelectSeq(dict_right, unused)[n].k,
                  v |-> SelectSeq(dict_right, unused)[n].v]]
    ELSE << >>

PairsJoinHows == {"left", "right", "inner", "outer"}

\* PairsFlux.map_side_join(right, how) with right a dict: the result is
\* PairsFlux(items, **props), props = get_meta() without count
pairs_map_side_join(f, dict_right, how) ==
    IF how \notin PairsJoinHows THEN Raised("AssertionError")
    ELSE PairsFlux(pairs_join_left_items(f.data, dict_right, how)
                       \o pairs_join_right_items(f.data, dict_right, how),
                   f.mem, None, TRUE,
                   {"less_than", "source", "context", "max_items_in_memory",
                    "tmp_files_template", "tmp_files_encoding", "check", "secondary"})

InitPairsJoin ==
    /\ OpsIdle
    /\ SortIdle
    /\ IterIdle
    /\ MergeIdle
    /\ GroupIdle
    /\ ParseIdle
    /\ MemoryIdle
    /\ DiskIdle
    /\ ValidIdle
    /\ CloseIdle
    /\ TopoIdle
    /\ j_left \in SeqsUpTo(PairsJoinLeft, MaxJoinLen)
    /\ j_right \in PairsJoinDicts
    /\ j_args = << >>
    /\ j_res = << >>

\* fx.PairsFlux(pairs).map_side_join(right, how), or
\* readers.from_list(pairs).to_pairs().map_side_join(right, how)
PairsMapSideJoinCall ==
    /\ j_res = << >>
    /\ \E how \in PairsJoinHows, made \in {"PairsFlux", "to_pairs"} :
        LET receiver == IF made = "PairsFlux" THEN PairsFlux(j_left, TRUE, None, TRUE, {})
                        ELSE to_pairs(from_list(j_left))
        IN  /\ j_args' = <<[how |-> how, made |-> made]>>
            /\ j_res' = <<IF receiver.status # "ok" THEN receiver
                          ELSE pairs_map_side_join(receiver.flux, j_right, how)>>
    /\ UNCHANGED <<j_left, j_right, opsVars, sortVars, iterVars, mergeVars, groupVars, parseVars, memVars, diskVars, validVars, closeVars, topoVars>>

NextPairsJoin == PairsMapSideJoinCall

SpecPairsJoin == InitPairsJoin /\ [][NextPairsJoin]_vars

(***************************************************************************)
(* SpecParse: a LinesFlux over a list of lines, one call of parse_json,    *)
(* and one full iteration of the flux it returns.                          *)
(***************************************************************************)

\* the lines: a JSON object, a JSON number, and text that is not JSON
ParseLines == {"{}", "5", "abc"}

\* json.loads(line)
py_json_loads(line) ==
    CASE line = "{}" -> [status |-> "ok", value |-> [shape |-> "record", n |-> 0]]
      [] line = "5" -> [status |-> "ok", value |-> [shape |-> "int", n |-> 5]]
      [] OTHER -> [status |-> "JSONDecodeError", value |-> [shape |-> "none", n |-> 0]]

\* default_value: None, a record, or the number 0
ParseDefaults ==
    {None, Some([shape |-> "record", n |-> 1]), Some([shape |-> "int", n |-> 0])}

\* a mapper that raises on every invalid line, whatever the default
json_loads_ignoring_default(line, default_value) == py_json_loads(line)

\* the closure json_loads of parse_json
json_loads_or_default(line, default_value) ==
    LET parsed == py_json_loads(line)
    IN  IF parsed.status = "ok" THEN parsed
        ELSE IF default_value # None THEN [status |-> "ok", value |-> default_value[1]]
        ELSE parsed

\* fx.LinesFlux(data, count=..., check=...): check=True wraps the data in a generator
LinesFlux(data, mem, count, check) ==
    AnyFlux(data, mem /\ ~check, count, None, MAX_ITEMS_IN_MEMORY)

\* iterating map(json_loads, lines), through check_records when the
\* flux validates: the items yielded and the exception that ends it
RECURSIVE iterate_mapped(_, _, _)
iterate_mapped(lines, default_value, check) ==
    IF lines = << >> THEN [out |-> << >>, error |-> "none"]
    ELSE LET item == json_loads_or_default(lines[1], default_value)
         IN  IF item.status # "ok" THEN [out |-> << >>, error |-> item.status]
             ELSE IF check /\ item.value.shape # "record"
                  THEN [out |-> << >>, error |-> "TypeError"]
                  ELSE LET rest == iterate_mapped(Tail(lines), default_value, check)
                       IN  [out |-> <<item.value>> \o rest.out, error |-> rest.error]

ParseTargets == {"RecordsFlux", "AnyFlux"}

\* LinesFlux.parse_json(default_value, to): map(json_loads, to=to), eager
\* when the source is in memory, then set_meta(count=self.count), which
\* builds the target class again and so with check=True for a RecordsFlux.
\* The returned flux holds the lines it still has to map.
parse_json(f, default_value, to) ==
    LET eager == iterate_mapped(f.data, default_value, FALSE)
        check == to = "RecordsFlux"
    IN  IF f.mem /\ eager.error # "none"
        THEN [status |-> eager.error, flux |-> iterable(<< >>, TRUE), check |-> check]
        ELSE [status |-> "ok",
              flux |-> AnyFlux(f.data, f.mem /\ ~check, f.count, None, MAX_ITEMS_IN_MEMORY),
              check |-> check]

ParseSources ==
    {LinesFlux(l, TRUE, c, check) :
        l \in SeqsUpTo(ParseLines, MaxLen), c \in {None}, check \in BOOLEAN}
    \cup {LinesFlux(l, TRUE, Some(Len(l)), TRUE) : l \in SeqsUpTo(ParseLines, MaxLen)}

InitParse ==
    /\ OpsIdle
    /\ SortIdle
    /\ IterIdle
    /\ JoinIdle
    /\ MergeIdle
    /\ GroupIdle
    /\ MemoryIdle
    /\ DiskIdle
    /\ ValidIdle
    /\ CloseIdle
    /\ TopoIdle
    /\ p_lines \in ParseSources
    /\ p_args = << >>
    /\ p_res = << >>

\* flux.parse_json(default_value=d, to=to)
ParseJsonCall ==
    /\ p_res = << >>
    /\ \E d \in ParseDefaults, to \in ParseTargets :
        /\ p_args' = <<[default_value |-> d, to |-> to]>>
        /\ p_res' = <<[call |-> parse_json(p_lines, d, to), got |-> << >>]>>
    /\ UNCHANGED <<p_lines, opsVars, sortVars, iterVars, joinVars, mergeVars, groupVars, memVars, diskVars, validVars, closeVars, topoVars>>

\* iterating the returned flux to its end
ParseGetItems ==
    /\ p_res # << >>
    /\ p_res[1].call.status = "ok"
    /\ p_res[1].got = << >>
    /\ p_res' = <<[p_res[1] EXCEPT !.got =
                      <<iterate_mapped(p_res[1].call.flux.data,
                                       p_args[1].default_value, p_res[1].call.check)>>]>>
    /\ UNCHANGED <<p_lines, p_args, opsVars, sortVars, iterVars, joinVars, mergeVars, groupVars, memVars, diskVars, validVars, closeVars, topoVars>>

NextParse == ParseJsonCall \/ ParseGetItems

SpecParse == InitParse /\ [][NextParse]_vars

(***************************************************************************)
(* SpecDisk: the temporary files of two disk sorts, made one after the     *)
(* other as join() makes them for its left and its right side.  A sort     *)
(* writes its chunk files at the call; its merge reads them when the       *)
(* sorted flux is iterated.                                                *)
(***************************************************************************)
DiskSides == {"left", "right"}

DiskItems ==
    {[v |-> 1, id |-> "b", shape |-> "list"], [v |-> 2, id |-> "a", shape |-> "list"]}

DiskLists == SeqsUpTo(DiskItems, MaxLen) \ {<< >>}

NoMerge == [sorted |-> FALSE, parts |-> 0, wrote |-> << >>, read |-> << >>,
            got |-> << >>, done |-> FALSE]

\* part_fn = file_template.format(part_no), file_template = 'flux_{}.tmp'
part_fn(side, part_no) == <<"flux", part_no>>

InitDisk ==
    /\ OpsIdle
    /\ SortIdle
    /\ IterIdle
    /\ JoinIdle
    /\ MergeIdle
    /\ GroupIdle
    /\ ParseIdle
    /\ MemoryIdle
    /\ ValidIdle
    /\ CloseIdle
    /\ TopoIdle
    /\ d_files = << >>
    /\ d_merges = [side \in DiskSides |-> NoMerge]
    /\ d_clobbered = FALSE

\* fx.AnyFlux(items).disk_sort(key, step=step): split_to_disk_by_step
\* writes every chunk to its file, replacing what the file held, and the
\* returned flux is the merge of the files, not read yet
DiskSort ==
    \E side \in DiskSides, l \in DiskLists, step \in 1..SmallMemory :
        LET flux_parts == split_to_disk_by_step(iterable(l, TRUE), step, <<"first">>, FALSE)
            names == {part_fn(side, n) : n \in 1..Len(flux_parts)}
        IN  /\ ~d_merges[side].sorted
            /\ d_files' = [name \in DOMAIN d_files \cup names |->
                              IF name \in names
                              THEN [owner |-> side, data |-> flux_parts[name[2]].data]
                              ELSE d_files[name]]
            /\ d_clobbered' =
                   (d_clobbered \/ \E name \in names \cap DOMAIN d_files :
                                       /\ d_files[name].owner # side
                                       /\ ~d_merges[d_files[name].owner].done)
            /\ d_merges' = [d_merges EXCEPT ![side] =
                               [sorted |-> TRUE, parts |-> Len(flux_parts),
                                wrote |-> [n \in 1..Len(flux_parts) |-> flux_parts[n].data],
                                read |-> << >>, got |-> << >>, done |-> FALSE]]
            /\ UNCHANGED <<opsVars, sortVars, iterVars, joinVars, mergeVars, groupVars, parseVars, memVars, validVars, closeVars, topoVars>>

\* get_list() of a sorted flux: merge_iter over the files as they are now
DiskConsume ==
    \E side \in DiskSides :
        LET m == d_merges[side]
            read == [n \in 1..m.parts |-> d_files[part_fn(side, n)].data]
        IN  /\ m.sorted
            /\ ~m.done
            /\ d_merges' = [d_merges EXCEPT ![side] =
                               [m EXCEPT !.read = read,
                                         !.got = merge_iter(read, <<"first">>, FALSE),
                                         !.done = TRUE]]
            /\ UNCHANGED <<d_files, d_clobbered, opsVars, sortVars, iterVars, joinVars, mergeVars, groupVars, parseVars, memVars, validVars, closeVars, topoVars>>

NextDisk == DiskSort \/ DiskConsume

SpecDisk == InitDisk /\ [][NextDisk]_vars

(***************************************************************************)
(* SpecValid: a typed flux built from a list, one call of validated on it, *)
(* and one full iteration of the flux that call returns.                   *)
(***************************************************************************)
TypedClasses == {"LinesFlux", "RowsFlux", "PairsFlux", "RecordsFlux"}

\* the items: None, a string, a dict, a 2-tuple and a 1-tuple
ValidItems ==
    {None,
     Some([shape |-> "str", elems |-> << >>]),
     Some([shape |-> "record", elems |-> << >>]),
     Some([shape |-> "tuple", elems |-> <<1, 2>>]),
     Some([shape |-> "tuple", elems |-> <<1>>])}

is_line(item) == item # None /\ item[1].shape = "str"
is_pair(item) == is_row(item) /\ Len(item[1].elems) = 2

\* is_valid_item of each typed class
is_valid_item(cls, item) ==
    CASE cls = "LinesFlux" -> is_line(item)
      [] cls = "RowsFlux" -> is_row(item)
      [] cls = "PairsFlux" -> is_pair(item)
      [] OTHER -> is_record(item)

\* check_lines, check_rows, check_pairs, check_records iterated to the end:
\* the items yielded and the exception that ends the iteration
RECURSIVE check_items(_, _, _)
check_items(cls, items, skip_errors) ==
    IF items = << >> THEN [out |-> << >>, error |-> "none"]
    ELSE LET rest == check_items(cls, Tail(items), skip_errors)
         IN  IF is_valid_item(cls, items[1])
             THEN [out |-> <<items[1]>> \o rest.out, error |-> rest.error]
             ELSE IF skip_errors THEN rest
             ELSE [out |-> << >>, error |-> "TypeError"]

\* a chain of check generators, the innermost first: each one reads what
\* the one inside it yields, and an exception inside ends them all
RECURSIVE iterate_checked(_, _, _)
iterate_checked(cls, items, checks) ==
    IF checks = << >> THEN [out |-> items, error |-> "none"]
    ELSE LET inner == check_items(cls, items, checks[1])
             outer == iterate_checked(cls, inner.out, Tail(checks))
         IN  IF outer.error # "none" THEN outer
             ELSE [out |-> outer.out, error |-> inner.error]

\* cls(data, **keywords): the flux, and the check generators around its
\* data; check=True adds check_x(data), which never skips
new_typed(cls, data, mem, checks, check, keywords) ==
    LET made == CASE cls = "LinesFlux" -> Returned(LinesFlux(data, mem, None, check))
                  [] cls = "RowsFlux" -> RowsFlux(data, mem, None, check, keywords)
                  [] cls = "PairsFlux" -> PairsFlux(data, mem, None, check, keywords)
                  [] OTHER -> RecordsFlux(data, mem, None, check, keywords)
    IN  [status |-> made.status, flux |-> made.flux, check |-> check,
         checks |-> IF check THEN Append(checks, FALSE) ELSE checks]

\* the keys of get_meta() of a typed flux
TypedMeta ==
    {"count", "less_than", "source", "context", "max_items_in_memory",
     "tmp_files_template", "tmp_files_encoding", "check"}

\* flux.validated(skip_errors): the class again, over
\* valid_items(self.get_items(), skip_errors), with get_meta()
validated_typed(cls, f, skip_errors) ==
    new_typed(cls, f.flux.data, FALSE, Append(f.checks, skip_errors), f.check, TypedMeta)

InitValid ==
    /\ OpsIdle
    /\ SortIdle
    /\ IterIdle
    /\ JoinIdle
    /\ MergeIdle
    /\ GroupIdle
    /\ ParseIdle
    /\ MemoryIdle
    /\ DiskIdle
    /\ CloseIdle
    /\ TopoIdle
    /\ v_in \in SeqsUpTo(ValidItems, MaxLen)
    /\ v_args = << >>
    /\ v_res = << >>

\* cls(items, check=check).validated(skip_errors=skip_errors)
ValidatedCall ==
    /\ v_res = << >>
    /\ \E cls \in TypedClasses, check \in BOOLEAN, skip_errors \in BOOLEAN :
        LET receiver == new_typed(cls, v_in, TRUE, << >>, check,
                                  IF check THEN {} ELSE {"check"})
        IN  /\ v_args' = <<[cls |-> cls, check |-> check, skip_errors |-> skip_errors]>>
            /\ v_res' = <<[call |-> IF receiver.status # "ok" THEN receiver
                                    ELSE validated_typed(cls, receiver, skip_errors),
                           got |-> << >>]>>
    /\ UNCHANGED <<v_in, opsVars, sortVars, iterVars, joinVars, mergeVars, groupVars, parseVars, memVars, diskVars, closeVars, topoVars>>

\* iterating the validated flux to its end
ValidGetItems ==
    /\ v_res # << >>
    /\ v_res[1].call.status = "ok"
    /\ v_res[1].got = << >>
    /\ v_res' = <<[v_res[1] EXCEPT !.got =
                      <<iterate_checked(v_args[1].cls, v_res[1].call.flux.data,
                                        v_res[1].call.checks)>>]>>
    /\ UNCHANGED <<v_in, v_args, opsVars, sortVars, iterVars, joinVars, mergeVars, groupVars, parseVars, memVars, diskVars, closeVars, topoVars>>

NextValid == ValidatedCall \/ ValidGetItems

SpecValid == InitValid /\ [][NextValid]_vars

(***************************************************************************)
(* SpecIter: a lazy flux F = readers.from_list(items) and the iterators    *)
(* that share its generator: F itself, one flux derived from F, or the     *)
(* branches of F.tee(n).  Each action is one call made by the program.     *)
(***************************************************************************)

\* next() of get_generator_from_list: the next item, or StopIteration
gen_next(g) ==
    IF g.pos < Len(g.items)
    THEN [stop |-> FALSE, item |-> g.items[g.pos + 1], gen |-> [g EXCEPT !.pos = @ + 1]]
    ELSE [stop |-> TRUE, item |-> 0, gen |-> g]

\* a loop over F's data that leaves the generator where it was
iterate_all_rewinding(g) ==
    [out |-> SubSeq(g.items, g.pos + 1, Len(g.items)), gen |-> g]

\* `for _ in self.get_items()` to the end: get_list, final_count, pass_items
iterate_all(g) ==
    [out |-> SubSeq(g.items, g.pos + 1, Len(g.items)), gen |-> [g EXCEPT !.pos = Len(g.items)]]

Stopped(d, g) == [out |-> << >>, der |-> [d EXCEPT !.done = TRUE], gen |-> g]
Yielded(item, d, g) == [out |-> <<item>>, der |-> [d EXCEPT !.out = Append(@, item)], gen |-> g]

\* next() of map(function, self.iterable())
map_next(d, g) ==
    LET r == gen_next(g)
    IN  IF r.stop THEN Stopped(d, g)
        ELSE Yielded(ApplyFn(d.arg, r.item), [d EXCEPT !.n = @ + 1], r.gen)

\* next() of filter(filter_function, self.iterable())
RECURSIVE filter_next(_, _)
filter_next(d, g) ==
    LET r == gen_next(g)
    IN  IF r.stop THEN Stopped(d, g)
        ELSE IF filter_function(d.arg, r.item)
             THEN Yielded(r.item, [d EXCEPT !.n = @ + 1], r.gen)
             ELSE filter_next([d EXCEPT !.n = @ + 1], r.gen)

\* next() of take_items: resumed after a yield it tests n + 1 >= m first
take_next(d, g) ==
    IF d.n >= 1 /\ d.n >= d.arg THEN Stopped(d, g)
    ELSE LET r == gen_next(g)
         IN  IF r.stop THEN Stopped(d, g)
             ELSE Yielded(r.item, [d EXCEPT !.n = @ + 1], r.gen)

\* next() of skip_items: items are pulled until one has n >= c
RECURSIVE skip_next(_, _)
skip_next(d, g) ==
    LET r == gen_next(g)
    IN  IF r.stop THEN Stopped(d, g)
        ELSE IF d.n >= d.arg
             THEN Yielded(r.item, [d EXCEPT !.n = @ + 1], r.gen)
             ELSE skip_next([d EXCEPT !.n = @ + 1], r.gen)

\* one next() on the derived flux's data
der_next(d, g) ==
    IF d.done THEN Stopped(d, g)
    ELSE CASE d.kind = "map" -> map_next(d, g)
           [] d.kind = "filter" -> filter_next(d, g)
           [] d.kind = "take" -> take_next(d, g)
           [] d.kind = "skip" -> skip_next(d, g)
           [] OTHER -> Stopped(d, g)

\* list(self.get_items()) on the derived flux
RECURSIVE der_get_list(_, _, _)
der_get_list(d, g, acc) ==
    IF d.done THEN [out |-> acc, der |-> d, gen |-> g]
    ELSE LET r == der_next(d, g) IN der_get_list(r.der, r.gen, acc \o r.out)

\* next() of a branch of itertools.tee: an empty buffer pulls the source once
\* and appends the item to every branch's buffer; the branch pops its own
tee_next_unbuffered(t, g, b) ==
    LET r == gen_next(g)
    IN  IF r.stop THEN [tee |-> [t EXCEPT !.done[b] = TRUE], gen |-> g]
        ELSE [tee |-> [t EXCEPT !.out[b] = Append(@, r.item)], gen |-> r.gen]

tee_next(t, g, b) ==
    IF t.deques[b] # << >>
    THEN [tee |-> [t EXCEPT !.out[b] = Append(@, Head(t.deques[b])),
                            !.deques[b] = Tail(@)],
          gen |-> g]
    ELSE LET r == gen_next(g)
         IN  IF r.stop THEN [tee |-> [t EXCEPT !.done[b] = TRUE], gen |-> g]
             ELSE [tee |-> [t EXCEPT !.out[b] = Append(@, r.item),
                                     !.deques = [c \in 1..Len(t.deques) |->
                                                    IF c = b THEN t.deques[c]
                                                    ELSE Append(t.deques[c], r.item)]],
                   gen |-> r.gen]

InitIter ==
    /\ OpsIdle
    /\ SortIdle
    /\ JoinIdle
    /\ MergeIdle
    /\ GroupIdle
    /\ ParseIdle
    /\ MemoryIdle
    /\ DiskIdle
    /\ ValidIdle
    /\ CloseIdle
    /\ TopoIdle
    /\ gen \in [items : Lists, pos : {0}]
    /\ fl = NotIterated
    /\ der = NoDerived
    /\ tb = NoTee

\* what a call on F or on the derived flux yielded: after F's exhaustion it is late
NoteYield(who, out, g) ==
    /\ fl' = [fl EXCEPT !.out = IF who = "f" THEN @ \o out ELSE @,
                        !.late = IF fl.exhausted THEN @ \o out ELSE @,
                        !.late_iters = IF fl.exhausted THEN @ \cup {who} ELSE @]
    /\ tb' = [tb EXCEPT !.bypass = @ \/ (tb.deques # << >> /\ g # gen)]

\* F.one(): the first item of a loop over F's data
One ==
    LET r == gen_next(gen)
    IN  /\ gen' = r.gen
        /\ NoteYield("f", IF r.stop THEN << >> ELSE <<r.item>>, r.gen)
        /\ UNCHANGED <<der, opsVars, sortVars, joinVars, mergeVars, groupVars, parseVars, memVars, diskVars, validVars, closeVars, topoVars>>

\* F.get_list(), F.final_count() or F.pass_items(): F is iterated to exhaustion
Exhaust ==
    \E how \in {"get_list", "final_count", "pass_items"} :
        LET r == iterate_all(gen)
        IN  /\ gen' = r.gen
            /\ fl' = [fl EXCEPT !.out = @ \o r.out,
                                !.exhausted = TRUE,
                                !.late = IF fl.exhausted THEN @ \o r.out ELSE @,
                                !.late_iters = IF fl.exhausted THEN @ \cup {"f"} ELSE @]
            /\ tb' = [tb EXCEPT !.bypass = @ \/ (tb.deques # << >> /\ r.gen # gen)]
            /\ UNCHANGED <<der, opsVars, sortVars, joinVars, mergeVars, groupVars, parseVars, memVars, diskVars, validVars, closeVars, topoVars>>

\* D = F.map(fn), F.filter(p), F.take(m) or F.skip(c); F.count is the list's length
Derive ==
    /\ der.kind = "none"
    /\ tb.deques = << >>
    /\ \E kind \in {"map", "filter", "take", "skip"} :
        \E arg \in (CASE kind = "map" -> MapFns
                      [] kind = "filter" -> {<<p>> : p \in Preds}
                      [] OTHER -> Args) :
            der' = [NoDerived EXCEPT
                       !.kind = IF kind = "skip" /\ Len(gen.items) # 0 /\ arg >= Len(gen.items)
                                THEN "empty_list" ELSE kind,
                       !.arg = arg, !.base = gen.pos]
    /\ UNCHANGED <<gen, fl, tb, opsVars, sortVars, joinVars, mergeVars, groupVars, parseVars, memVars, diskVars, validVars, closeVars, topoVars>>

\* one next() on D's data
NextDerived ==
    /\ der.kind # "none"
    /\ LET r == der_next(der, gen)
       IN  /\ gen' = r.gen
           /\ der' = r.der
           /\ NoteYield("d", r.out, r.gen)
    /\ UNCHANGED <<opsVars, sortVars, joinVars, mergeVars, groupVars, parseVars, memVars, diskVars, validVars, closeVars, topoVars>>

\* D.get_list()
GetListDerived ==
    /\ der.kind # "none"
    /\ LET r == der_get_list(IF der.kind = "empty_list" THEN [der EXCEPT !.done = TRUE] ELSE der,
                             gen, << >>)
       IN  /\ gen' = r.gen
           /\ der' = r.der
           /\ NoteYield("d", r.out, r.gen)
    /\ UNCHANGED <<opsVars, sortVars, joinVars, mergeVars, groupVars, parseVars, memVars, diskVars, validVars, closeVars, topoVars>>

\* F.tee(n)
Tee ==
    /\ tb.deques = << >>
    /\ der.kind = "none"
    /\ \E n \in 1..MaxTee :
        tb' = [deques |-> [b \in 1..n |-> << >>], out |-> [b \in 1..n |-> << >>],
               done |-> [b \in 1..n |-> FALSE], base |-> gen.pos, bypass |-> FALSE]
    /\ UNCHANGED <<gen, fl, der, opsVars, sortVars, joinVars, mergeVars, groupVars, parseVars, memVars, diskVars, validVars, closeVars, topoVars>>

\* one next() on branch b
NextBranch ==
    \E b \in 1..Len(tb.deques) :
        LET r == tee_next(tb, gen, b)
        IN  /\ gen' = r.gen
            /\ tb' = r.tee
            /\ UNCHANGED <<fl, der, opsVars, sortVars, joinVars, mergeVars, groupVars, parseVars, memVars, diskVars, validVars, closeVars, topoVars>>

NextIter ==
    \/ One \/ Exhaust \/ Derive \/ NextDerived \/ GetListDerived \/ Tee \/ NextBranch

SpecIter == InitIter /\ [][NextIter]_vars

(***************************************************************************)
(* SpecMemory: the lazy flux F of SpecIter, possibly read in part by       *)
(* F.one(), or a flux over the same list, is materialized by to_memory;    *)
(* the result M is then read by get_list and materialized again.           *)
(***************************************************************************)

\* get_list(): list(self.get_items()); a list is read whole each time, a
\* generator gives what is left of it, once
get_list(f, consumed) == IF f.mem \/ ~consumed THEN f.data ELSE << >>

\* M = f.to_memory(), for f = F (what is left of the generator) or f = fx.AnyFlux(items)
ToMemory ==
    /\ in_mem.made = << >>
    /\ \E src \in {"lazy", "list"} :
        LET it == IF src = "lazy" THEN iterate_all(gen)
                  ELSE [out |-> gen.items, gen |-> gen]
            f == AnyFlux(it.out, src = "list", Some(Len(gen.items)), None, MAX_ITEMS_IN_MEMORY)
        IN  /\ gen' = it.gen
            /\ NoteYield("f", IF src = "lazy" THEN it.out ELSE << >>, it.gen)
            /\ in_mem' = [in_mem EXCEPT !.made = <<to_memory(f)>>,
                                        !.from = IF src = "lazy" THEN gen.pos ELSE 0]
    /\ UNCHANGED <<der, opsVars, sortVars, joinVars, mergeVars, groupVars, parseVars, diskVars, validVars, closeVars, topoVars>>

\* M.get_list()
MemoryGetList ==
    /\ in_mem.made # << >>
    /\ Len(in_mem.reads) < MaxReads
    /\ in_mem' = [in_mem EXCEPT !.reads = Append(@, get_list(in_mem.made[1], in_mem.consumed)),
                                !.consumed = TRUE]
    /\ UNCHANGED <<iterVars, opsVars, sortVars, joinVars, mergeVars, groupVars, parseVars, diskVars, validVars, closeVars, topoVars>>

\* M.to_memory()
ToMemoryAgain ==
    /\ in_mem.made # << >>
    /\ in_mem.again = << >>
    /\ LET m == in_mem.made[1]
           f == AnyFlux(get_list(m, in_mem.consumed), m.mem, m.count, m.less_than,
                        m.max_items_in_memory)
       IN  in_mem' = [in_mem EXCEPT !.again = <<to_memory(f)>>, !.consumed = TRUE]
    /\ UNCHANGED <<iterVars, opsVars, sortVars, joinVars, mergeVars, groupVars, parseVars, diskVars, validVars, closeVars, topoVars>>

NextMemory == One \/ ToMemory \/ MemoryGetList \/ ToMemoryAgain

SpecMemory == InitIter /\ [][NextMemory]_vars

(***************************************************************************)
(* SpecClose: a text file, the LinesFlux that from_file makes of it, and   *)
(* close() on that flux, possibly after one(), take() or to_memory().      *)
(* c_file is the TextFile (its lines, how many were read, whether its      *)
(* fileholder is open), c_flux the flux last made, c_res the close() call. *)
(***************************************************************************)
FileLines == {"a", "b"}

\* TextFile.is_opened after get_lines: open(reopen=True) has opened the holder
opened_file(lines) == [lines |-> lines, pos |-> 0, opened |-> TRUE]

\* TextFile.close: closes the holder and returns 1 if it was open, else None
file_close(file) ==
    [file |-> [file EXCEPT !.opened = FALSE],
     closed |-> IF file.opened THEN Some(1) ELSE None]

\* a generator that does not close the file when the lines run out
get_next_line_left_open(file) ==
    IF file.pos < Len(file.lines)
    THEN [file |-> [file EXCEPT !.pos = @ + 1], item |-> Some(file.lines[file.pos + 1])]
    ELSE [file |-> file, item |-> None]

\* one next() on get_next_lines(close=True): the next line, or, when the
\* lines have run out, self.close() and the end of the generator
get_next_line(file) ==
    IF file.pos < Len(file.lines)
    THEN [file |-> [file EXCEPT !.pos = @ + 1], item |-> Some(file.lines[file.pos + 1])]
    ELSE [file |-> file_close(file).file, item |-> None]

\* LinesFlux.from_file(filename): a lazy flux over get_lines(), source = the file
lines_from_file ==
    [mem |-> FALSE, data |-> << >>, limit |-> None, n |-> 0, ended |-> FALSE]

\* one next() on the data of a lazy flux: on the lines of the file, or on
\* take_items(m), which yields an item and tests n + 1 >= m when resumed
flux_next(f, file) ==
    IF f.ended THEN [flux |-> f, file |-> file, item |-> None]
    ELSE IF f.limit # None /\ f.n >= 1 /\ f.n >= f.limit[1]
         THEN [flux |-> [f EXCEPT !.ended = TRUE], file |-> file, item |-> None]
         ELSE LET r == get_next_line(file)
              IN  IF r.item = None
                  THEN [flux |-> [f EXCEPT !.ended = TRUE], file |-> r.file, item |-> None]
                  ELSE [flux |-> [f EXCEPT !.n = @ + 1], file |-> r.file, item |-> r.item]

\* for i in self.get_items(): a list is read whole, a generator to its end
RECURSIVE flux_iterate(_, _)
flux_iterate(f, file) ==
    IF f.mem THEN [flux |-> f, file |-> file, out |-> f.data]
    ELSE LET r == flux_next(f, file)
         IN  IF r.item = None THEN [flux |-> r.flux, file |-> r.file, out |-> << >>]
             ELSE LET rest == flux_iterate(r.flux, r.file)
                  IN  [flux |-> rest.flux, file |-> rest.file, out |-> r.item \o rest.out]

\* AnyFlux.close(recursively): pass_items(), then close() of every link
flux_close(f, file, recursively) ==
    LET passed == flux_iterate(f, file)
        link == file_close(passed.file)
    IN  [flux |-> passed.flux,
         file |-> IF recursively THEN link.file ELSE passed.file,
         closed_fluxes |-> 1,
         closed_links |-> IF recursively THEN PyOr(link.closed, Some(0))[1] ELSE 0]

InitClose ==
    /\ OpsIdle
    /\ SortIdle
    /\ IterIdle
    /\ JoinIdle
    /\ MergeIdle
    /\ GroupIdle
    /\ ParseIdle
    /\ MemoryIdle
    /\ DiskIdle
    /\ ValidIdle
    /\ TopoIdle
    /\ c_file \in {opened_file(lines) : lines \in SeqsUpTo(FileLines, MaxLen)}
    /\ c_flux = lines_from_file
    /\ c_res = << >>

\* f.one(): the first next() on the items
CloseOne ==
    /\ c_res = << >>
    /\ ~c_flux.mem
    /\ ~c_flux.ended
    /\ c_flux.n = 0
    /\ LET r == flux_next(c_flux, c_file)
       IN  /\ c_flux' = r.flux
           /\ c_file' = r.file
    /\ UNCHANGED <<c_res, opsVars, sortVars, iterVars, joinVars, mergeVars, groupVars, parseVars, memVars, diskVars, validVars, topoVars>>

\* f = f.take(m), or from_file(filename, max_count=m) for m > 0
CloseTake ==
    /\ c_res = << >>
    /\ ~c_flux.mem
    /\ c_flux.limit = None
    /\ c_flux.n = 0
    /\ ~c_flux.ended
    /\ \E m \in 0..MaxLen : c_flux' = [c_flux EXCEPT !.limit = Some(m)]
    /\ UNCHANGED <<c_file, c_res, opsVars, sortVars, iterVars, joinVars, mergeVars, groupVars, parseVars, memVars, diskVars, validVars, topoVars>>

\* f = f.to_memory(): get_list() reads the items, the new flux holds the list
CloseToMemory ==
    /\ c_res = << >>
    /\ ~c_flux.mem
    /\ LET r == flux_iterate(c_flux, c_file)
       IN  /\ c_flux' = [r.flux EXCEPT !.mem = TRUE, !.data = r.out]
           /\ c_file' = r.file
    /\ UNCHANGED <<c_res, opsVars, sortVars, iterVars, joinVars, mergeVars, groupVars, parseVars, memVars, diskVars, validVars, topoVars>>

\* f.close(recursively)
CloseCall ==
    /\ c_res = << >>
    /\ \E recursively \in BOOLEAN :
        LET r == flux_close(c_flux, c_file, recursively)
        IN  /\ c_flux' = r.flux
            /\ c_file' = r.file
            /\ c_res' = <<[recursively |-> recursively,
                           opened_before |-> c_file.opened,
                           closed_fluxes |-> r.closed_fluxes,
                           closed_links |-> r.closed_links,
                           after |-> None]>>
    /\ UNCHANGED <<opsVars, sortVars, iterVars, joinVars, mergeVars, groupVars, parseVars, memVars, diskVars, validVars, topoVars>>

\* list(f.get_items()) after close() has returned
CloseGetItems ==
    /\ c_res # << >>
    /\ c_res[1].after = None
    /\ LET r == flux_iterate(c_flux, c_file)
       IN  /\ c_flux' = r.flux
           /\ c_file' = r.file
           /\ c_res' = <<[c_res[1] EXCEPT !.after = Some(r.out)]>>
    /\ UNCHANGED <<opsVars, sortVars, iterVars, joinVars, mergeVars, groupVars, parseVars, memVars, diskVars, validVars, topoVars>>

NextClose == CloseOne \/ CloseTake \/ CloseToMemory \/ CloseCall \/ CloseGetItems

SpecClose == InitClose /\ [][NextClose]_vars

(***************************************************************************)
(* SpecTopo: one call of topologically_sorted(selectors), step by step.    *)
(* t_selectors is the dict as its (field, inputs) items in order, the      *)
(* inputs being those process_description finds in the description; t_run  *)
(* is the frame of the call: where it is, its three locals, and the index  *)
(* of the for loop over unordered_fields.                                  *)
(***************************************************************************)
TopoFields == {"a", "b", "c"}

\* the dicts: no field twice, each description naming up to MaxDeps inputs
TopoSelectors ==
    {s \in SeqsUpTo([field : TopoFields, inputs : SeqsUpTo(TopoFields, MaxDeps)], MaxLen) :
        \A m, n \in 1..Len(s) : s[m].field = s[n].field => m = n}

\* list.remove(x): the list without the first occurrence of x
list_remove(s, x) ==
    LET at == CHOOSE n \in 1..Len(s) : s[n] = x /\ \A m \in 1..(n - 1) : s[m] # x
    IN  SubSeq(s, 1, at - 1) \o SubSeq(s, at + 1, Len(s))

\* x in list
list_has(s, x) == \E n \in 1..Len(s) : s[n] = x

\* [d for d in dependencies if d in selectors.keys() and d != field]
unresolved_of(selectors, item) ==
    LET keys == {selectors[n].field : n \in 1..Len(selectors)}
        kept(d) == d \in keys /\ d # item.field
    IN  SelectSeq(item.inputs, kept)

InitTopo ==
    /\ OpsIdle
    /\ SortIdle
    /\ IterIdle
    /\ JoinIdle
    /\ MergeIdle
    /\ GroupIdle
    /\ ParseIdle
    /\ MemoryIdle
    /\ DiskIdle
    /\ ValidIdle
    /\ CloseIdle
    /\ t_selectors \in TopoSelectors
    /\ t_run = [pc |-> "call", ordered_fields |-> << >>, unordered_fields |-> << >>,
                unresolved_dependencies |-> << >>, i |-> 0]

\* the first loop: every field unordered, with its unresolved dependencies
\* (unresolved_dependencies[n] belongs to the field t_selectors[n].field)
TopoCollect ==
    /\ t_run.pc = "call"
    /\ t_run' = [t_run EXCEPT
                    !.pc = "while",
                    !.unordered_fields = [n \in 1..Len(t_selectors) |-> t_selectors[n].field],
                    !.unresolved_dependencies =
                        [n \in 1..Len(t_selectors) |-> unresolved_of(t_selectors, t_selectors[n])]]
    /\ UNCHANGED <<t_selectors, opsVars, sortVars, iterVars, joinVars, mergeVars, groupVars, parseVars, memVars, diskVars, validVars, closeVars>>

\* while unordered_fields: start the for loop, or return
TopoWhile ==
    /\ t_run.pc = "while"
    /\ t_run' = IF t_run.unordered_fields # << >>
                THEN [t_run EXCEPT !.pc = "for", !.i = 0]
                ELSE [t_run EXCEPT !.pc = "done"]
    /\ UNCHANGED <<t_selectors, opsVars, sortVars, iterVars, joinVars, mergeVars, groupVars, parseVars, memVars, diskVars, validVars, closeVars>>

\* the index in t_selectors of a field
field_no(field) == CHOOSE n \in 1..Len(t_selectors) : t_selectors[n].field = field

\* one round of 'for field in unordered_fields': the list iterator takes the
\* item at its index and moves on, whatever the body removed from the list
TopoFor ==
    /\ t_run.pc = "for"
    /\ IF t_run.i >= Len(t_run.unordered_fields)
       THEN t_run' = [t_run EXCEPT !.pc = "while"]
       ELSE LET field == t_run.unordered_fields[t_run.i + 1]
                left == list_remove(t_run.unordered_fields, field)
                waits(n) == /\ list_has(left, t_selectors[n].field)
                            /\ list_has(t_run.unresolved_dependencies[n], field)
            IN  IF t_run.unresolved_dependencies[field_no(field)] # << >>
                THEN t_run' = [t_run EXCEPT !.i = @ + 1]
                ELSE t_run' = [t_run EXCEPT
                        !.i = @ + 1,
                        !.ordered_fields = Append(@, field),
                        !.unordered_fields = left,
                        !.unresolved_dependencies =
                            [n \in 1..Len(t_selectors) |->
                                IF waits(n) THEN list_remove(@[n], field) ELSE @[n]]]
    /\ UNCHANGED <<t_selectors, opsVars, sortVars, iterVars, joinVars, mergeVars, groupVars, parseVars, memVars, diskVars, validVars, closeVars>>

NextTopo == TopoCollect \/ TopoWhile \/ TopoFor

\* the call runs on: a step that can be taken is taken
SpecTopo == InitTopo /\ [][NextTopo]_vars /\ WF_vars(NextTopo)

(***************************************************************************)
(* Properties of the operators (SpecOps).                                  *)
(***************************************************************************)

\* C1: A.add(B) yields the items of A followed by those of B (B then A when
\* before); the count is A.count + B.count when B is a flux and both counts
\* are known, and None otherwise.
C1_AddConcatenates ==
    [][last'.op = "add" =>
        LET A == flux
            B == last'.b
            R == flux'
        IN  /\ R.data = IF last'.before THEN B.flux.data \o A.data
                                         ELSE A.data \o B.flux.data
            /\ R.count = IF B.isflux /\ A.count # None /\ B.flux.count # None
                          THEN Some(A.count[1] + B.flux.count[1]) ELSE None]_vars

C1_Witness ==
    /\ last.op = "add" /\ last.b.isflux /\ last.before
    /\ flux.count # None
    /\ Len(last.b.flux.data) = 1 /\ Len(flux.data) >= 3
    /\ flux.data[1] # flux.data[2]

\* C4: split(k), 0 <= k <= n, returns the first k items and the remaining
\* n - k items, and their concatenation is the original sequence.
C4_SplitByPosPartitions ==
    [][(last'.op = "split_by_pos" /\ last'.n <= Len(flux.data)) =>
        LET k == last'.n
            n == Len(flux.data)
        IN  /\ parts'[1].data = SubSeq(flux.data, 1, k)
            /\ parts'[2].data = SubSeq(flux.data, k + 1, n)
            /\ parts'[1].data \o parts'[2].data = flux.data]_vars

\* C5: for a flux created from a list with its exact count and transformed
\* by the operators, a count that is not None is the number of items the
\* flux yields.
CountIsExact(f) == f.count # None => f.count[1] = Len(f.data)

C5_CountInvariant ==
    origin # "iterable" =>
        /\ CountIsExact(flux)
        /\ \A i \in 1..Len(parts) : CountIsExact(parts[i])

\* C9: filter yields the items every predicate accepts, in order; a
\* materialized source gives a materialized result with its exact count, a
\* lazy source gives count None and less_than = the source's count, or the
\* source's less_than when the count is unknown.
C9_FilterSelects ==
    [][last'.op = "filter" =>
        LET A == flux
            R == flux'
            passing == SelectSeq(A.data,
                           LAMBDA i : \A n \in 1..Len(last'.fns) : ApplyPred(last'.fns[n], i))
        IN  /\ R.data = passing
            /\ A.mem => R.mem /\ R.count = Some(Len(passing))
            /\ ~A.mem => /\ ~R.mem
                          /\ R.count = None
                          /\ R.less_than = IF A.count # None THEN A.count
                                                              ELSE A.less_than]_vars

(***************************************************************************)
(* Properties of the sort (SpecSort).                                      *)
(***************************************************************************)
Called(call) == s_res # << >> /\ s_res.call = call

\* no item must precede an earlier one
Ordered(res, keys, reverse) ==
    \A i \in 1..Len(res) : \A j \in i..Len(res) : ~Before(res[j], res[i], keys, reverse)

\* for every key the items of that key are the same and in the same order:
\* res is a permutation of src that keeps the order of equal keys
SameRuns(res, src, keys) ==
    \A x \in {composite_key(keys, (res \o src)[i]) : i \in 1..(Len(res) + Len(src))} :
        SelectSeq(res, LAMBDA e : composite_key(keys, e) = x)
            = SelectSeq(src, LAMBDA e : composite_key(keys, e) = x)

IsStableSortOf(res, src, keys, reverse) ==
    Ordered(res, keys, reverse) /\ SameRuns(res, src, keys)

JsonRoundTrip(s) == [i \in 1..Len(s) |-> json_loads(json_dumps(s[i]))]

\* the key function gives an item and its JSON round trip the same key
KeyKeptByJson(s, keys) ==
    \A i \in 1..Len(s) :
        composite_key(keys, json_loads(json_dumps(s[i]))) = composite_key(keys, s[i])

StepOfCall == undefault_step(s_args.step, s_flux)

\* C3 as claimed: for 1 <= T < N disk_sort yields the very sequence
\* memory_sort yields, and its count is N.
C3_DiskSortEqualsMemorySort ==
    (Called("disk_sort") /\ 1 <= StepOfCall /\ StepOfCall < Len(s_flux.data)) =>
        /\ s_res.res.status = "ok"
        /\ s_res.res.flux.data = memory_sort(s_flux, s_args.keys, s_args.reverse).data
        /\ s_res.res.flux.count = Some(Len(s_flux.data))

\* C3 amended: for a key function that the JSON round trip does not change,
\* disk_sort yields the JSON round trip of what memory_sort yields, in the
\* same order (equal keys included), and its count is N.
C3_DiskSortIsRoundTrippedMemorySort ==
    (Called("disk_sort") /\ 1 <= StepOfCall /\ StepOfCall < Len(s_flux.data)
        /\ KeyKeptByJson(s_flux.data, s_args.keys)) =>
        /\ s_res.res.status = "ok"
        /\ s_res.res.flux.data
               = JsonRoundTrip(memory_sort(s_flux, s_args.keys, s_args.reverse).data)
        /\ s_res.res.flux.count = Some(Len(s_flux.data))

C3_Witness ==
    /\ Called("disk_sort") /\ StepOfCall = 2 /\ s_res.res.status = "ok"
    /\ s_args.keys = <<"first">>
    /\ Len(s_flux.data) = 3
    /\ s_flux.data[1].v = 2 /\ s_flux.data[2].v = 1 /\ s_flux.data[3].v = 1
    /\ s_flux.data[2].id # s_flux.data[3].id
    /\ s_res.res.flux.data[1].id = s_flux.data[2].id

(***************************************************************************)
(* Properties of the iterators (SpecIter).                                 *)
(***************************************************************************)

\* C6: once F has been iterated to exhaustion, every later iteration of F
\* and of a flux derived from it yields no item.
C6_ExhaustedYieldsNothing == fl.late = << >>

C6_Witness ==
    /\ fl.exhausted /\ fl.late_iters = {"f", "d"}
    /\ Len(gen.items) >= 2 /\ Len(fl.out) >= 1
    /\ der.kind = "map" /\ Len(der.out) < Len(gen.items)

\* the items the tee was made over, and how far its fastest branch is
TeeItems == SubSeq(gen.items, tb.base + 1, Len(gen.items))
Fastest == CHOOSE n \in {Len(tb.out[b]) : b \in 1..Len(tb.out)} :
               \A b \in 1..Len(tb.out) : Len(tb.out[b]) <= n

\* C7: under every interleaving of pulls each branch of tee(n) yields the
\* original items in order, none removed by another branch, and a branch's
\* buffer holds exactly the items the fastest branch has pulled and it has not.
C7_TeeBranchesIndependent ==
    (tb.deques # << >> /\ ~tb.bypass) =>
        /\ gen.pos = tb.base + Fastest
        /\ \A b \in 1..Len(tb.deques) :
            /\ tb.out[b] = SubSeq(TeeItems, 1, Len(tb.out[b]))
            /\ tb.done[b] => tb.out[b] = TeeItems
            /\ tb.deques[b] = SubSeq(TeeItems, Len(tb.out[b]) + 1, Fastest)

C7_Witness ==
    /\ Len(tb.deques) = 2 /\ ~tb.bypass
    /\ tb.done[1] /\ Len(tb.out[1]) = 3 /\ tb.out[1][1] # tb.out[1][2]
    /\ Len(tb.out[2]) = 1 /\ Len(tb.deques[2]) = 2

\* C8: consumed to exhaustion, take(n) has pulled exactly min(n, length)
\* items from the producer and yielded exactly those.
C8_TakePullsOnlyN ==
    (der.kind = "take" /\ der.done /\ gen.pos = der.base + der.n) =>
        LET k == Min(der.arg, Len(gen.items) - der.base)
        IN  /\ der.n = k
            /\ der.out = SubSeq(gen.items, der.base + 1, der.base + k)

(***************************************************************************)
(* Properties of the map-side join (SpecJoin).                             *)
(***************************************************************************)
Joined == j_res[1].data
JoinKey(item) == composite_key(j_args[1].key, item)

\* the outputs that carry a left item, and the left items they carry
LeftOutputs == SelectSeq(Joined, LAMBDA o : o[1] # None)
LeftsMatched == SelectSeq(j_left.data,
                          LAMBDA l : \E i \in 1..Len(j_right.data) : JoinKey(j_right.data[i]) = JoinKey(l))

\* the last item of the right sequence with the key of l
LastPartner(l) ==
    LET hits == {i \in 1..Len(j_right.data) : JoinKey(j_right.data[i]) = JoinKey(l)}
    IN  j_right.data[CHOOSE i \in hits : \A h \in hits : h <= i]

\* C10: with right_is_uniq=True the matched left items give one output each,
\* in left order, paired with the last right item of equal key; an unmatched
\* left item gives at most one output, and none with a right partner.
C10_UniqRightLastWins ==
    (j_res # << >> /\ j_args[1].right_is_uniq) =>
        LET paired == SelectSeq(LeftOutputs, LAMBDA o : o[2] # None)
            alone == SelectSeq(LeftOutputs, LAMBDA o : o[2] = None)
            LeftsUnmatched == SelectSeq(j_left.data,
                                  LAMBDA l : \A i \in 1..Len(j_right.data) :
                                                 JoinKey(j_right.data[i]) # JoinKey(l))
        IN  /\ paired = [i \in 1..Len(LeftsMatched) |->
                            <<Some(LeftsMatched[i]), Some(LastPartner(LeftsMatched[i]))>>]
            /\ [i \in 1..Len(LeftOutputs) |-> LeftOutputs[i][1][1]]
                   = SelectSeq(j_left.data,
                               LAMBDA l : \E i \in 1..Len(LeftOutputs) : LeftOutputs[i][1] = Some(l))
            /\ alone \in {<< >>, [i \in 1..Len(LeftsUnmatched) |-> <<Some(LeftsUnmatched[i]), None>>]}

C10_Witness ==
    /\ j_res # << >> /\ j_args[1].right_is_uniq /\ j_args[1].key = <<"first">>
    /\ Len(j_left.data) = 3 /\ Len(LeftsMatched) = 2
    /\ Len(j_right.data) = 3
    /\ j_right.data[1].v = j_right.data[3].v /\ j_right.data[1] # j_right.data[3]
    /\ JoinKey(j_right.data[1]) = JoinKey(LeftsMatched[1])

\* the right items with the key of l, in the right sequence's order
Partners(l) == SelectSeq(j_right.data, LAMBDA r : JoinKey(r) = JoinKey(l))

\* the outputs of one left item: its pairs, or for an unmatched item the
\* pair with None when keep says so
PairsOf(l, all) ==
    IF all THEN [k \in 1..Len(Partners(l)) |-> <<Some(l), Some(Partners(l)[k])>>]
    ELSE <<<<Some(l), Some(LastPartner(l))>>>>

Blocks(all, keep) ==
    Flatten([i \in 1..Len(j_left.data) |->
                IF Partners(j_left.data[i]) # << >> THEN PairsOf(j_left.data[i], all)
                ELSE IF keep THEN <<<<Some(j_left.data[i]), None>>>> ELSE << >>])

\* C11: with right_is_uniq=False every left item, in left order, gives one
\* output per right item of equal key, consecutive and in right order.
C11_NonUniqEveryMatch ==
    (j_res # << >> /\ ~j_args[1].right_is_uniq) =>
        LeftOutputs \in {Blocks(TRUE, TRUE), Blocks(TRUE, FALSE)}

C11_Witness ==
    /\ j_res # << >> /\ ~j_args[1].right_is_uniq /\ j_args[1].key = <<"first">>
    /\ Len(j_left.data) = 2 /\ j_left.data[1].v = 1 /\ j_left.data[2].v = 1
    /\ Len(j_right.data) = 3 /\ Len(Partners(j_left.data[1])) = 2
    /\ j_right.data[1].v = 1 /\ j_right.data[2].v = 2
    /\ Len(LeftOutputs) = 4

\* C12: a left item without a match gives nothing under inner and one pair
\* with None under left; matched left items give the same under both.
C12_UnmatchedLeft ==
    (j_res # << >> /\ j_args[1].how \in {"inner", "left"}) =>
        /\ Joined = Blocks(~j_args[1].right_is_uniq, j_args[1].how = "left")
        /\ SelectSeq(map_side_join(j_left, j_right, j_args[1].key, "left",
                                   j_args[1].right_is_uniq).data,
                     LAMBDA o : o[2] # None)
               = map_side_join(j_left, j_right, j_args[1].key, "inner",
                               j_args[1].right_is_uniq).data

C12_Witness ==
    /\ j_res # << >> /\ j_args[1].how = "left" /\ j_args[1].key = <<"first">>
    /\ Len(j_left.data) = 3 /\ Partners(j_left.data[1]) = << >>
    /\ Partners(j_left.data[2]) # << >> /\ Partners(j_left.data[3]) = << >>
    /\ Len(Joined) = 3 /\ Joined[1][2] = None /\ Joined[2][2] # None

\* how often x occurs in s
Count(s, x) == Cardinality({i \in 1..Len(s) : s[i] = x})
SameBag(s, t) == \A x \in {(s \o t)[i] : i \in 1..(Len(s) + Len(t))} : Count(s, x) = Count(t, x)

\* the outputs after those of the left stream
RightTail == SubSeq(Joined, Len(LeftOutputs) + 1, Len(Joined))
LeftKeys == {JoinKey(j_left.data[i]) : i \in 1..Len(j_left.data)}
UnmatchedRights == SelectSeq(j_right.data, LAMBDA r : JoinKey(r) \notin LeftKeys)
AsRightOnly(rs) == [i \in 1..Len(rs) |-> <<None, Some(rs[i])>>]

RECURSIVE LastOfEachKey(_)
LastOfEachKey(rs) ==
    IF rs = << >> THEN << >>
    ELSE IF \E i \in 2..Len(rs) : JoinKey(rs[i]) = JoinKey(Head(rs))
         THEN LastOfEachKey(Tail(rs))
         ELSE <<Head(rs)>> \o LastOfEachKey(Tail(rs))

SortedJoined == j_res[1].flux.data
HasKey(items, keys, k) == \E i \in 1..Len(items) : composite_key(keys, items[i]) = k

\* what a join must emit, in any order: every pair of a left and a right
\* item of equal key, and the items of one-sided keys as how keeps them
EveryMatch(ls, rs, keys, how) ==
    Flatten([i \in 1..Len(ls) |->
                LET same == SelectSeq(rs, LAMBDA x : composite_key(keys, x) = composite_key(keys, ls[i]))
                IN  IF same # << >> THEN [j \in 1..Len(same) |-> <<Some(ls[i]), Some(same[j])>>]
                    ELSE IF how \in {"left", "full"} THEN <<<<Some(ls[i]), None>>>> ELSE << >>])
    \o (IF how \in {"right", "full"}
        THEN [j \in 1..Len(SelectSeq(rs, LAMBDA x : ~HasKey(ls, keys, composite_key(keys, x)))) |->
                 <<None, Some(SelectSeq(rs, LAMBDA x : ~HasKey(ls, keys, composite_key(keys, x)))[j])>>]
        ELSE << >>)

\* C14: on two inputs sorted ascending by the key, sorted_join emits for a
\* key on both sides the cross product of its runs, and the items of a key
\* on one side alone paired with None as how keeps them.
C14_SortedJoinCrossProduct ==
    (j_res # << >> /\ j_args[1].call = "sorted_join" /\ ~j_args[1].reverse
        /\ Ordered(j_left.data, j_args[1].key, FALSE)
        /\ Ordered(j_right.data, j_args[1].key, FALSE)) =>
        /\ j_res[1].status = "ok"
        /\ SameBag(SortedJoined,
                   EveryMatch(j_left.data, j_right.data, j_args[1].key, j_args[1].how))

C14_Witness ==
    /\ j_res # << >> /\ j_args[1].call = "sorted_join" /\ ~j_args[1].reverse
    /\ j_args[1].key = <<"first">> /\ j_args[1].how = "full"
    /\ Len(j_left.data) = 3 /\ Len(j_right.data) = 2
    /\ j_left.data[1].v = 1 /\ j_left.data[2].v = 1 /\ j_left.data[3].v = 2
    /\ j_left.data[1] # j_left.data[2]
    /\ j_right.data[1].v = 1 /\ j_right.data[2].v = 1 /\ j_right.data[1] # j_right.data[2]
    /\ Len(SortedJoined) = 5

(***************************************************************************)
(* Properties of merge_two_items (SpecMerge).                              *)
(***************************************************************************)

\* C20: merge_two_items never raises; two records give left's fields plus
\* right's fields with right winning, two rows their concatenation, and
\* every other pair of inputs the 2-tuple (left, right).
C20_MergeFollowsRule ==
    m_res # << >> =>
        /\ m_res[1].status = "ok"
        /\ IF is_record(m_first) /\ is_record(m_second)
           THEN /\ m_res[1].shape = "record"
                /\ m_res[1].value =
                       [k \in DOMAIN m_first[1].fields \cup DOMAIN m_second[1].fields |->
                           IF k \in DOMAIN m_second[1].fields THEN m_second[1].fields[k]
                           ELSE m_first[1].fields[k]]
           ELSE IF is_row(m_first) /\ is_row(m_second)
                THEN /\ m_res[1].shape = "tuple"
                     /\ m_res[1].value = row_elems(m_first[1]) \o row_elems(m_second[1])
                ELSE /\ m_res[1].shape = "pair"
                     /\ m_res[1].value = <<m_first, m_second>>

(***************************************************************************)
(* Properties of grouping (SpecGroup).                                     *)
(***************************************************************************)
GroupCalled(call) == g_res # << >> /\ g_args[1].call = call

\* the length of the maximal run of equal keys that starts a pair list
RunLen(ps) ==
    CHOOSE n \in 1..Len(ps) :
        /\ \A i \in 1..n : ps[i].k = ps[1].k
        /\ n = Len(ps) \/ ps[n + 1].k # ps[1].k

\* one (key, values) group per maximal run, in input order
RECURSIVE KeyRuns(_)
KeyRuns(ps) ==
    IF ps = << >> THEN << >>
    ELSE <<[k |-> Some(ps[1].k), v |-> [i \in 1..RunLen(ps) |-> ps[i].v]]>>
             \o KeyRuns(SubSeq(ps, RunLen(ps) + 1, Len(ps)))

\* C15: sorted_group_by_key on a non-empty pair sequence returns one
\* (key, values) pair per maximal run of consecutive pairs with equal key,
\* in input order, each values list holding the run's values in input order.
C15_OneGroupPerRun ==
    (GroupCalled("sorted_group_by_key") /\ g_in # << >>) =>
        /\ g_res[1].status = "ok"
        /\ g_res[1].flux.data = KeyRuns(g_in)

GroupRecordsOf(group) == IF g_args[1].as_pairs THEN group.v ELSE group

\* C16: RecordsFlux.group_by(keys) with the default take_hash=True, for
\* as_pairs True and False, returns exactly one group per distinct key of
\* the input, each group holding all and only the records with that key,
\* the groups in ascending key order.
C16_GroupByOneGroupPerKey ==
    (GroupCalled("group_by") /\ g_args[1].take_hash) =>
        /\ g_res[1].status = "ok"
        /\ LET groups == g_res[1].flux.data
           IN  /\ Len(groups) = Cardinality({g_in[n].x : n \in 1..Len(g_in)})
               /\ \A n \in 1..Len(groups) :
                    LET recs == GroupRecordsOf(groups[n])
                    IN  /\ recs # << >>
                        /\ SameBag(recs, SelectSeq(g_in, LAMBDA r : r.x = recs[1].x))
               /\ \A n, m \in 1..Len(groups) :
                    n < m => GroupRecordsOf(groups[n])[1].x < GroupRecordsOf(groups[m])[1].x

(***************************************************************************)
(* Properties of parse_json (SpecParse).                                   *)
(***************************************************************************)
\* the call has been made and its result read to the end or to an exception
Parsed == p_res # << >> /\ (p_res[1].call.status # "ok" \/ p_res[1].got # << >>)
ParseFailure ==
    IF p_res[1].call.status # "ok" THEN p_res[1].call.status ELSE p_res[1].got[1].error
ParseOutput == IF p_res[1].call.status # "ok" THEN << >> ELSE p_res[1].got[1].out

IsJson(line) == line \in {"{}", "5"}
JsonValue(line) ==
    IF line = "{}" THEN [shape |-> "record", n |-> 0] ELSE [shape |-> "int", n |-> 5]
\* what line i stands for: its JSON value, or the default
ParseValueAt(i) ==
    IF IsJson(p_lines.data[i]) THEN JsonValue(p_lines.data[i])
    ELSE p_args[1].default_value[1]
Undecodable(i) == ~IsJson(p_lines.data[i]) /\ p_args[1].default_value = None
FirstIn(S) == IF S = {} THEN Len(p_lines.data) + 1 ELSE CHOOSE i \in S : \A j \in S : i <= j

\* C17: with default_value d not None the result has one item per line, in
\* order, the line's JSON value or d, and nothing is raised; with d None the
\* first invalid line raises JSONDecodeError, after the values before it
\* when the result is lazy and at the call when the source is in memory.
\* The result's count is the source's count.
C17_ParseJsonMapsEveryLine ==
    Parsed =>
        LET stop == FirstIn({i \in 1..Len(p_lines.data) : Undecodable(i)})
        IN  /\ p_res[1].call.status = "ok" =>
                    ParseOutput = [i \in 1..(stop - 1) |-> ParseValueAt(i)]
            /\ ParseFailure = IF stop <= Len(p_lines.data) THEN "JSONDecodeError" ELSE "none"
            /\ p_res[1].call.status = "ok" => p_res[1].call.flux.count = p_lines.count

NotRecord(i) ==
    /\ p_args[1].to = "RecordsFlux"
    /\ ~Undecodable(i)
    /\ ParseValueAt(i).shape # "record"

\* C17 as the code has it: the same, except that with to='RecordsFlux'
\* (the default) a line whose value, parsed or defaulted, is not a record
\* raises TypeError when it is reached; a source held in memory is mapped
\* at the call, which then raises the JSONDecodeError itself.
C17_ParseJsonMapsUntilNonRecord ==
    Parsed =>
        LET bad == {i \in 1..Len(p_lines.data) : Undecodable(i)}
            stop == FirstIn(bad \cup {i \in 1..Len(p_lines.data) : NotRecord(i)})
        IN  IF p_lines.mem /\ bad # {}
            THEN p_res[1].call.status = "JSONDecodeError"
            ELSE /\ p_res[1].call.status = "ok"
                 /\ ParseOutput = [i \in 1..(stop - 1) |-> ParseValueAt(i)]
                 /\ ParseFailure = IF stop > Len(p_lines.data) THEN "none"
                                   ELSE IF Undecodable(stop) THEN "JSONDecodeError"
                                   ELSE "TypeError"
                 /\ p_res[1].call.flux.count = p_lines.count

\* a default is used for an invalid line, then a number ends a RecordsFlux
C17_Witness ==
    /\ Parsed
    /\ p_args[1].to = "RecordsFlux"
    /\ p_args[1].default_value = Some([shape |-> "record", n |-> 1])
    /\ p_lines.data = <<"{}", "abc", "5">>
    /\ ParseOutput = <<[shape |-> "record", n |-> 0], [shape |-> "record", n |-> 1]>>
    /\ ParseFailure = "TypeError"

(***************************************************************************)
(* Properties of to_memory (SpecMemory).                                   *)
(***************************************************************************)
\* the items the flux had when to_memory was called
ItemsBefore == SubSeq(gen.items, in_mem.from + 1, Len(gen.items))
Materialized(f) == f.mem /\ f.count = Some(Len(f.data))

\* C18: f.to_memory() is in memory with count equal to its number of items,
\* f.to_memory().to_memory() holds the same list, and every get_list of the
\* materialized flux returns the same full list.
C18_ToMemoryIdempotent ==
    in_mem.made # << >> =>
        /\ Materialized(in_mem.made[1])
        /\ in_mem.made[1].data = ItemsBefore
        /\ in_mem.again # << >> =>
              /\ Materialized(in_mem.again[1])
              /\ in_mem.again[1].data = ItemsBefore
        /\ \A i \in 1..Len(in_mem.reads) : in_mem.reads[i] = ItemsBefore

\* a generator read in part, materialized, read twice and materialized again
C18_Witness ==
    /\ in_mem.made # << >> /\ in_mem.again # << >>
    /\ in_mem.from = 1
    /\ Len(ItemsBefore) = 2
    /\ in_mem.made[1].count = Some(2)
    /\ Len(in_mem.reads) = 2
    /\ in_mem.reads[2] = ItemsBefore

(***************************************************************************)
(* Properties of the chunk files (SpecDisk).                               *)
(***************************************************************************)
\* C19: a chunk file that a merge not yet consumed still has to read is
\* never rewritten by another disk sort, and each merge reads back exactly
\* the chunks its own sort wrote.
C19_ChunkFilesNotShared ==
    /\ ~d_clobbered
    /\ \A side \in DiskSides :
          /\ (d_merges[side].sorted /\ ~d_merges[side].done) =>
                 \A n \in 1..d_merges[side].parts : d_files[part_fn(side, n)].owner = side
          /\ d_merges[side].done => d_merges[side].read = d_merges[side].wrote

(***************************************************************************)
(* Properties of per-item validation (SpecValid).                          *)
(***************************************************************************)
\* the class's own notion of a valid item
ValidFor(cls, item) ==
    CASE cls = "LinesFlux" -> item # None /\ item[1].shape = "str"
      [] cls = "RowsFlux" -> item # None /\ item[1].shape = "tuple"
      [] cls = "PairsFlux" -> item # None /\ item[1].shape = "tuple" /\ Len(item[1].elems) = 2
      [] OTHER -> item # None /\ item[1].shape = "record"

FirstInvalid ==
    LET bad == {i \in 1..Len(v_in) : ~ValidFor(v_args[1].cls, v_in[i])}
    IN  IF bad = {} THEN Len(v_in) + 1 ELSE CHOOSE i \in bad : \A j \in bad : i <= j

\* C21: for a typed flux (lines, rows, pairs, records), validation with
\* skip_errors=True yields exactly the valid items in source order and never
\* raises; with skip_errors=False it yields the items before the first
\* invalid one and then raises TypeError.
C21_ValidationSkipsOrRaises ==
    v_res # << >> =>
        /\ v_res[1].call.status = "ok"
        /\ v_res[1].got # << >> =>
              IF v_args[1].skip_errors
              THEN /\ v_res[1].got[1].error = "none"
                   /\ v_res[1].got[1].out =
                          SelectSeq(v_in, LAMBDA i : ValidFor(v_args[1].cls, i))
              ELSE /\ v_res[1].got[1].out = SubSeq(v_in, 1, FirstInvalid - 1)
                   /\ v_res[1].got[1].error =
                          IF FirstInvalid <= Len(v_in) THEN "TypeError" ELSE "none"

(***************************************************************************)
(* Properties of the choice of the sort path (SpecSortPath).               *)
(***************************************************************************)
\* the cardinality the claim speaks of: count if known, else less_than
KnownCardinality == IF s_flux.count # None THEN s_flux.count ELSE s_flux.less_than
\* the threshold the claim speaks of: step when given, else max_items_in_memory
StepOrMax == IF s_args.step # << >> THEN s_args.step[1] ELSE s_flux.max_items_in_memory

\* C22: sort(step=s) sorts in memory exactly when the flux is materialized
\* or its cardinality (count if known, else less_than) is known and at most
\* the threshold, which is step when given and max_items_in_memory
\* otherwise; in every other case it sorts on disk.
C22_SortPathRule ==
    (s_res # << >> /\ s_res.call = "sort") =>
        (s_res.path = "memory" <=>
            \/ s_flux.mem
            \/ KnownCardinality # None /\ KnownCardinality[1] <= StepOrMax)

(***************************************************************************)
(* Properties of the split into chunks (SpecSplitStep).                    *)
(***************************************************************************)
SplitCalled ==
    s_res # << >> /\ s_res.call \in {"split_to_iter_by_step", "split_to_disk_by_step"}
ChunkItems == [n \in 1..Len(s_res.res) |-> s_res.res[n].data]

\* ceil(N / step) chunks, all of step items but the last, which has 1..step
\* items, and each chunk's count is its size
ChunkSizes(N, step) ==
    /\ Len(s_res.res) = (N + step - 1) \div step
    /\ \A n \in 1..Len(s_res.res) :
          /\ Len(s_res.res[n].data) >= 1
          /\ Len(s_res.res[n].data) <= step
          /\ n < Len(s_res.res) => Len(s_res.res[n].data) = step
          /\ s_res.res[n].count = Some(Len(s_res.res[n].data))

\* C23: split_to_iter_by_step(step) and split_to_disk_by_step(step), step >= 1,
\* give ceil(N/step) consecutive chunks, each of step items but the last of
\* 1..step items, none empty, each with count equal to its size, and the
\* chunks concatenated in order are the input.
C23_ChunksPartitionInput ==
    SplitCalled =>
        /\ ChunkSizes(Len(s_flux.data), s_args.step[1])
        /\ Flatten(ChunkItems) = s_flux.data

\* C23 as the code has it: the same, except that the chunks of
\* split_to_disk_by_step hold the items as read back from JSON, where a
\* tuple has become a list.
C23_ChunksPartitionInputThroughJson ==
    SplitCalled =>
        /\ ChunkSizes(Len(s_flux.data), s_args.step[1])
        /\ Flatten(ChunkItems) = IF s_res.call = "split_to_disk_by_step"
                                 THEN JsonRoundTrip(s_flux.data)
                                 ELSE s_flux.data

\* three items, the first a tuple, split on disk in chunks of two
C23_Witness ==
    /\ SplitCalled
    /\ s_res.call = "split_to_disk_by_step"
    /\ s_args.step[1] = 2
    /\ Len(s_flux.data) = 3
    /\ s_flux.data[1].shape = "tuple"
    /\ Len(s_res.res) = 2
    /\ s_res.res[1].data[1].shape = "list"
    /\ Len(s_res.res[2].data) = 1

(***************************************************************************)
(* Properties of less_than (SpecBound).                                    *)
(***************************************************************************)
\* C24: for a flux created with an exact count and transformed by filter,
\* flat_map, skip, take and add of a list of items, less_than, when it is
\* not None, is at least the number of items the flux yields.
C24_LessThanIsUpperBound ==
    (origin # "iterable" /\ flux.less_than # None) =>
        flux.less_than[1] >= Len(flux.data)

(***************************************************************************)
(* Properties of split by a list of positions (SpecOps).                   *)
(***************************************************************************)
SplitPositions == last.fns
PositionBefore(i) == IF i = 1 THEN 0 ELSE SplitPositions[i - 1]
PositionAt(i) == IF i <= Len(SplitPositions) THEN SplitPositions[i] ELSE Len(flux.data)
\* 0 <= p1 <= ... <= pk <= n
PositionsInOrder ==
    \A i \in 1..(Len(SplitPositions) + 1) : PositionBefore(i) <= PositionAt(i)

\* C25: split(by=[p1, ..., pk]) with 0 <= p1 <= ... <= pk <= n, on a flux
\* that knows its count n, returns k + 1
\* partitions, partition i holding the items at positions [p(i-1), p(i)) and
\* the last the positions [pk, n), so that the partitions concatenated are
\* the sequence, and each partition's count is the number of its items.
C25_SplitByListPosPartitions ==
    (last.op = "split_by_list_pos" /\ flux.count = Some(Len(flux.data)) /\ PositionsInOrder) =>
        /\ Len(parts) = Len(SplitPositions) + 1
        /\ \A i \in 1..Len(parts) :
              /\ parts[i].data = SubSeq(flux.data, PositionBefore(i) + 1, PositionAt(i))
              /\ parts[i].count = Some(Len(parts[i].data))
        /\ Flatten([i \in 1..Len(parts) |-> parts[i].data]) = flux.data

PairsJoinOut == j_res[1].flux.data
PairsJoinKeys(s) == [n \in 1..Len(s) |-> s[n].k]
RightKeys == {j_right[n].k : n \in 1..Len(j_right)}
KeyOnRight(p) == p.k \in RightKeys
LeftEmitted ==
    IF j_args[1].how = "inner" THEN SelectSeq(j_left, KeyOnRight) ELSE j_left
RightOnly(e) == \A n \in 1..Len(j_left) : j_left[n].k # e.k

\* C26: PairsFlux.map_side_join returns, and a left pair is matched exactly
\* when its key is in the right mapping: under 'inner' the left pairs
\* emitted are those whose key is on the right, under the other policies
\* every left pair is emitted once; under 'outer' the right keys not seen on
\* the left follow, once each; under 'right' every right key is in the output.
C26_MatchedIffKeyPresent ==
    j_res # << >> =>
        /\ j_res[1].status = "ok"
        /\ SubSeq(PairsJoinKeys(PairsJoinOut), 1, Len(LeftEmitted)) = PairsJoinKeys(LeftEmitted)
        /\ PairsJoinKeys(SubSeq(PairsJoinOut, Len(LeftEmitted) + 1, Len(PairsJoinOut)))
              = IF j_args[1].how = "outer"
                THEN PairsJoinKeys(SelectSeq(j_right, RightOnly)) ELSE << >>
        /\ j_args[1].how = "right" =>
              RightKeys \subseteq {PairsJoinOut[n].k : n \in 1..Len(PairsJoinOut)}

Closed == c_res # << >>
ReadAfterClose == Closed /\ c_res[1].after # None

\* the flux, read to its end, asks the file for a line past its last one:
\* always without take, and under take(m) when the file has fewer than
\* max(m, 1) lines
ReadsToEndOfFile ==
    c_flux.limit = None
        \/ Len(c_file.lines) < (IF c_flux.limit[1] >= 1 THEN c_flux.limit[1] ELSE 1)

\* C27 as stated: close(recursively=False) leaves a source that was open
\* before the call open, the source is closed only by close(recursively=True),
\* and after close the flux yields no further items.
C27_CloseNeverClosesSource ==
    /\ (Closed /\ ~c_res[1].recursively /\ c_res[1].opened_before) => c_file.opened
    /\ ReadAfterClose => c_res[1].after[1] = << >>

\* C27, amended: close(recursively=False) makes no call of source.close(),
\* but it reads the flux to its end, and a file read past its last line
\* closes itself: a source open before the call is open after it exactly when
\* the flux is in memory or stops before the end of the file (take);
\* close(recursively=True) leaves the source closed and counts it as a closed
\* link exactly when close itself closed it.  After close a lazy flux yields
\* nothing more, a flux in memory yields its list again.
C27_CloseReadsSourceToEnd ==
    /\ Closed =>
          /\ c_res[1].closed_fluxes = 1
          /\ ~c_res[1].opened_before => ~c_file.opened /\ c_res[1].closed_links = 0
          /\ (c_res[1].opened_before /\ ~c_res[1].recursively) =>
                /\ c_file.opened <=> (c_flux.mem \/ ~ReadsToEndOfFile)
                /\ c_res[1].closed_links = 0
          /\ (c_res[1].opened_before /\ c_res[1].recursively) =>
                /\ ~c_file.opened
                /\ c_res[1].closed_links = IF c_flux.mem \/ ~ReadsToEndOfFile THEN 1 ELSE 0
    /\ ReadAfterClose =>
          c_res[1].after[1] = IF c_flux.mem THEN c_flux.data ELSE << >>

\* close(recursively=False) on a lazy flux over an open file has returned,
\* the file is closed, and the flux was read again
C27_Witness ==
    /\ ReadAfterClose
    /\ ~c_res[1].recursively
    /\ c_res[1].opened_before
    /\ ~c_flux.mem
    /\ Len(c_file.lines) > 0
    /\ ~c_file.opened

(***************************************************************************)
(* Properties of sort on an empty flux (SpecSortPath).                     *)
(***************************************************************************)
\* C28: sort() returns without raising for every input, and for an empty
\* flux (a list, a producer with count 0, a producer with unknown count) it
\* returns an empty flux with count 0, on the memory path and on the disk path.
C28_SortOfEmptyReturnsEmpty ==
    (s_res # << >> /\ s_res.call = "sort") =>
        /\ s_res.res.status = "ok"
        /\ s_flux.data = << >> =>
              /\ s_res.res.flux.data = << >>
              /\ s_res.res.flux.count = Some(0)

\* the key of an input item: a pair's first element, a record's x
GroupKeyOf(item) == IF item.shape = "tuple" THEN item.k ELSE item.x
\* the number of maximal runs of equal keys in the input
RunCount == Cardinality({n \in 1..Len(g_in) : n = 1 \/ GroupKeyOf(g_in[n]) # GroupKeyOf(g_in[n - 1])})
GroupMembers(group) == IF g_args[1].as_pairs THEN group.v ELSE group

\* C29: the run-length grouping pass (sorted_group_by_key, sorted_group_by)
\* returns groups that are all non-empty, as many as the input has maximal
\* runs of equal keys; an empty input gives no group.
C29_GroupsNonEmptyOnePerRun ==
    g_res # << >> =>
        /\ g_res[1].status = "ok"
        /\ Len(g_res[1].flux.data) = RunCount
        /\ \A n \in 1..Len(g_res[1].flux.data) : GroupMembers(g_res[1].flux.data[n]) # << >>

(***************************************************************************)
(* Properties of topologically_sorted (SpecTopo).                          *)
(***************************************************************************)
TopoKeys == {t_selectors[n].field : n \in 1..Len(t_selectors)}
\* field f depends on the selector field d
DependsOn(f, d) ==
    \E n \in 1..Len(t_selectors) :
        /\ t_selectors[n].field = f
        /\ d # f
        /\ d \in TopoKeys
        /\ list_has(t_selectors[n].inputs, d)
\* no cycle of two or more fields: some order puts every field after the
\* fields it depends on
TopoAcyclic ==
    \E order \in [TopoKeys -> 1..Cardinality(TopoKeys)] :
        \A f, d \in TopoKeys : DependsOn(f, d) => order[d] < order[f]
TopoReturned == t_run.pc = "done"
TopoPlace(f) == CHOOSE n \in 1..Len(t_run.ordered_fields) : t_run.ordered_fields[n] = f

\* C30: topologically_sorted(selectors) returns for every dict of field
\* descriptions, cyclic ones included, and for an acyclic dict the list it
\* returns has every field exactly once, each after the fields it depends on.
C30_TopologicallySortedTerminates ==
    /\ <>TopoReturned
    /\ [](TopoReturned /\ TopoAcyclic =>
            /\ Len(t_run.ordered_fields) = Cardinality(TopoKeys)
            /\ \A f \in TopoKeys : list_has(t_run.ordered_fields, f)
            /\ \A f, d \in TopoKeys : DependsOn(f, d) => TopoPlace(d) < TopoPlace(f))

====
